---- MODULE Spec2Model ----
(***************************************************************************)
(* State-machine model of the desktop media engine (src/desktop/src-tauri). *)
(*                                                                         *)
(*   Spec        the screen engine and the voice engine driven by their    *)
(*               UI commands (lifecycle, resources, stop flags)            *)
(*   SpecEnc     one audio encode loop (voice mic or screen audio): ring,  *)
(*               framing, mute, RTP sequence and timestamp, write_rtp      *)
(*   SpecWorkers the workers of one screen capture session and their stop  *)
(*               flag, with fair scheduling of the workers' own steps      *)
(*   SpecVoice   the voice engine with its peers' remote side and the      *)
(*               decode tasks of the remote tracks                         *)
(*   SpecSpeak   one speaking detector fed frame by frame                  *)
(*   SpecMjpeg   the MJPEG preview server, its watch channel and its       *)
(*               connection handlers, with fair scheduling of the handlers *)
(*   SpecFrames  the video frame channel between the PipeWire process      *)
(*               callback and the H.264 worker                             *)
(*   SpecMix     the playback mix ring, its decode tasks and the output    *)
(*               device callback                                           *)
(*   SpecPlay    the output device callback while the UI sets the deafen   *)
(*               flag and the master volume                                *)
(*   SpecCrop    one call of detect_alpha_crop and the frame extraction    *)
(*   SpecProcess the PipeWire process callback, buffer after buffer        *)
(*   SpecH264    the H.264 encode worker, frame after frame                *)
(*   SpecI420    the BGRA to I420 conversion                               *)
(*   SpecFormat  the pixel format of the screen stream and the frames' tag *)
(*   SpecAudioFormat  the screen-audio format callback against the start   *)
(*               of the Opus encode loop                                   *)
(*   SpecCapture the framing of the voice encode task, sample by sample    *)
(*   SpecRemoteTrack  one decode task and the packets and errors it reads  *)
(*   SpecEvents  the Speaking transitions on their way to the UI, with     *)
(*               fair scheduling of the event loop                         *)
(*   SpecOutput  the output format the decode tasks convert to             *)
(*   SpecStopWorker  the H.264 worker step by step against the stop flag   *)
(*   SpecResample  the length of a frame on its way to the Opus encoder    *)
(*   SpecSignal  the engines with the signalling commands                  *)
(***************************************************************************)
EXTENDS Integers, Sequences, FiniteSets, TLC

(***************************************************************************)
(* Bounds of the model.                                                    *)
(***************************************************************************)
\* Number of screen commands that may be pending at the same time.
NumCmds == 2
\* Number of times screen_start may get past the MJPEG bind.
MaxSetups == 2

\* Number of voice peer connections created in a behaviour.
MaxVoicePeers == 2
\* Number of successful AudioCapture::start calls in a behaviour.
MaxCaptures == 2

Cmds == 1..NumCmds
Setups == 1..MaxSetups
VoicePeers == 1..MaxVoicePeers
Captures == 1..MaxCaptures
\* Audio device names the UI may select; "none" stands for Option::None.
Devices == {"A", "B"}

VARIABLES
    \* ---- screen engine (screen/mod.rs, ScreenEngine) ----
    screen,     \* the ScreenEngine fields; 0 stands for None
    pc,         \* per pending screen command: the await point it is at
    res,        \* per command slot: the result of the last finished command
    port,       \* per command slot: the preview port returned (0: none)
    nSetups,    \* number of setups that got past the MJPEG bind
    srv,        \* MJPEG server k: "none" | "running" | "stopped"
    peer,       \* screen peer k: "none" | "open" | "closing" | "closed"
    evt,        \* screen event-forwarding task k
    sess,       \* run_capture task of capture session k
    sessFlag,   \* the stop flag handed to session k's workers
    workers,    \* whether session k's workers have been spawned
    flagVal     \* value of stop flag f (flag 0 is the one of ScreenCapture::new)

VARIABLES
    \* ---- which engine the UI commands of this behaviour drive ----
    \* (main.rs manages the two engines as separate states behind separate
    \* locks; they share nothing, so a behaviour is explored per engine)
    driven,
    \* ---- voice engine (voice/mod.rs, VoiceEngine) ----
    voice,      \* the VoiceEngine fields with those of its capture/playback
    vpc,        \* the pending voice command: [cmd, arg], cmd "idle" when none
    vres,       \* result of the last finished voice command
    nVPeers,    \* number of voice peers created
    madePeer,   \* Peer::new has returned a peer since the last voice_stop
    vpeer,      \* voice peer k: "none" | "open" | "failed" (closed or failed
                \* from the remote side) | "closing" | "closed"
    vevt,       \* voice event-forwarding task k
    nCaptures,  \* number of capture encode tasks spawned
    venc,       \* capture encode task k: "none" | "running" | "aborted"
    vtrack,     \* the peer whose local_track encode task k writes to
    vdec        \* decode task of peer k's remote track:
                \* "none" | "reading" | "decoded" | "ended"

\* State of one audio encode loop (voice mic encode task, or screen-audio
\* opus_encode_loop), observed on its own under SpecEnc.
VARIABLES
    ring,          \* samples waiting in the capture ring, in chunks
    pcm_buf,       \* pcm_buf.len(), in chunks
    muted,         \* AudioCapture.muted
    timestamp,     \* u32 as two 16-bit limbs [hi, lo]
    sequence,      \* u16
    encPc,         \* "idle", "head", "sleep", "frames", "write", "exited"
    halt,          \* voice: encode_handle.abort() was called; screen: stop flag
    pkt,           \* packet built and being passed to write_rtp
    lastPkt,       \* last packet passed to write_rtp
    prevPkt,       \* the one before it
    lastWrite,     \* result of the last write_rtp
    nFrames,       \* frames taken from pcm_buf since observation began
    lastFrame,     \* what the last frame did: "muted", "encode_error", "encoded"
    framesBefore,  \* frames processed before observation began
    everUnmuted    \* the mute flag was false at some time since start

\* State of the workers of one screen capture session, observed under
\* SpecWorkers.
VARIABLES
    wStop,         \* the session's stop flag
    vPw,           \* video PipeWire thread: "idle", "init", "running", "quitting", "exited"
    vBuf,          \* PipeWire holds a video buffer for the process callback
    chan,          \* frames queued in the frame channel
    txOpen,        \* frame_tx not dropped
    rxOpen,        \* frame_rx not dropped
    h264,          \* H.264 worker: "idle", "first_recv", "init", "recv", "frame", "exited"
    aPw,           \* audio PipeWire thread
    aBuf,          \* PipeWire holds an audio buffer for the process callback
    opus           \* opus_encode_loop thread: "none", "init", "head", "body", "exited"

\* State of one SpeakingDetector (voice/speaking.rs), observed on its own
\* under SpecSpeak.  Levels are in units of 1/10000 of full scale, times in
\* milliseconds.
VARIABLES
    smoothed_rms,  \* SpeakingDetector.smoothed_rms
    was_speaking,  \* SpeakingDetector.was_speaking
    hold_until,    \* SpeakingDetector.hold_until
    clock_ms,      \* SpeakingDetector.clock_ms
    frame,         \* the samples of the latest call: <<>> or <<rms level>>
    emit,          \* what the latest call returned: "none" | "true" | "false"
    prevEvent      \* the last Some(_) returned before the latest call

\* State of one MJPEG preview server (screen/preview.rs), its watch channel
\* and its client connections, observed on its own under SpecMjpeg.
VARIABLES
    mjPub,     \* version of the watch channel: number of send_replace calls
    mjTx,      \* the watch sender (preview_tx) has not been dropped
    mjStop,    \* MjpegServer.stop
    mjAccept,  \* accept task: "running" | "aborted" | "ended"
    conn,      \* connection c and its handler: "none" | "request" | "head" |
               \* "waiting" | "w1" | "w2" | "w3" | "closed"
    seen,      \* version the handler's receiver has marked seen
    cur,       \* the handler's local `jpeg`
    sent        \* what the handler has written to the stream after the
               \* response headers, one element per write_all

\* The video frame channel between the PipeWire process callback and the
\* H.264 worker (screen/capture.rs), observed on its own under SpecFrames.
VARIABLES
    fq,        \* frames queued in the channel, oldest first
    fBuilt,    \* number of frames the process callback has built
    fRxOpen,   \* frame_rx has not been dropped
    fPw,       \* PipeWire main loop: "running" | "quitting"
    fGot,      \* frames the H.264 worker has received, in order
    fSend      \* result of the latest try_send: "none" | "ok" | "full" | "closed"

\* The playback mix ring with its decode tasks and the output device callback
\* (voice/mod.rs spawn_decode_task, voice/audio_playback.rs), under SpecMix.
VARIABLES
    mixRing,        \* samples buffered in the playback ring, oldest first
    mixHolders,     \* decode tasks inside the mix_producer.lock() guard scope
    dpc,            \* per decode task: "read" | "lock" | "push"
    dPkt,           \* per decode task: number of the packet it decoded last
    dIdx,           \* per decode task: index of the next sample of `output`
    pushedLog,      \* every sample a try_push stored, in push order
    popLog,         \* every sample a try_pop returned, in pop order
    lastPush,       \* result of the latest try_push: "none" | "ok" | "full"
    deafened,       \* AudioPlayback.deafened
    master_volume,  \* AudioPlayback.master_volume
    cbPc,           \* output callback: "idle" | "fill"
    cbVol,          \* `vol` of the running callback
    cbDeaf,         \* `deaf` of the running callback
    data,           \* the samples the running callback has written so far
    nCb             \* number of callbacks the device has made

\* One call of detect_alpha_crop and the extraction that follows it
\* (screen/capture.rs), under SpecCrop.
VARIABLES
    cImg,      \* the buffer: content size, stride, length, alpha bytes
    cPc,       \* "idle" | "in" | "detected" | "done"
    cRes,      \* the CropResult returned
    cOut       \* <<>> when no frame was produced, else <<frame>>

\* The PipeWire process callback from the dequeued buffer to try_send
\* (screen/capture.rs, CaptureState), under SpecProcess.
VARIABLES
    content_w,     \* CaptureState.content_w
    content_h,     \* CaptureState.content_h
    crop_counter,  \* CaptureState.crop_counter
    cached_crop,   \* CaptureState.cached_crop
    pOut,          \* <<>> when the latest callback sent no frame, else <<frame>>
    pDet,          \* the latest callback ran detect_alpha_crop
    pEmptyRun,     \* buffers in a row, up to the latest, skipped as Empty
    pSince         \* buffers counted since the latest detection

\* The H.264 encode worker of run_capture (screen/capture.rs), under SpecH264.
VARIABLES
    hPc,          \* "first" | "loop" | "done"
    encW,         \* `w`: the encoder's width, 0 before the first frame
    encH,         \* `h`: the encoder's height
    pending,      \* <<>> or <<first frame>>
    frame_count,  \* frame_count of the encode loop
    forcedAt,     \* values of frame_count at which force_intra_frame was called
    hLast,        \* what the loop did with the latest frame it took
    hDropped      \* some frame was dropped for its dimensions

\* One call of bgra_to_i420 (screen/capture.rs, screen/encoder.rs), under
\* SpecI420.
VARIABLES
    iImg,      \* the BGRA buffer and its width and height
    iPc,       \* "idle" | "in" | "done"
    iOut       \* the Vec<u8> returned, as a sequence

\* The pixel format of the screen stream, from negotiation to conversion
\* (screen/capture.rs), under SpecFormat.
VARIABLES
    negotiated,   \* VideoFormat PipeWire has finalized: "none" before
    is_bgra,      \* CaptureState.is_bgra
    fmtQ,         \* frames in the channel: their tag and the format they have
    fmtConv       \* <<>> or <<latest frame converted, with the converter used>>

screenVars == <<screen, pc, res, port, nSetups, srv, peer, evt, sess, sessFlag, workers, flagVal>>
voiceVars == <<voice, vpc, vres, madePeer, nVPeers, vpeer, vevt, nCaptures, venc, vtrack, vdec>>

encVars == <<ring, pcm_buf, muted, timestamp, sequence, encPc, halt, pkt, lastPkt,
             prevPkt, lastWrite, nFrames, lastFrame, framesBefore, everUnmuted>>
wkVars == <<wStop, vPw, vBuf, chan, txOpen, rxOpen, h264, aPw, aBuf, opus>>

spkVars == <<smoothed_rms, was_speaking, hold_until, clock_ms, frame, emit, prevEvent>>

\* The parts observed on their own, each under its own specification.
mjVars == <<mjPub, mjTx, mjStop, mjAccept, conn, seen, cur, sent>>

frVars == <<fq, fBuilt, fRxOpen, fPw, fGot, fSend>>

mixVars == <<mixRing, mixHolders, dpc, dPkt, dIdx, pushedLog, popLog, lastPush,
             deafened, master_volume, cbPc, cbVol, cbDeaf, data, nCb>>

crVars == <<cImg, cPc, cRes, cOut>>

iVars == <<iImg, iPc, iOut>>

fmtVars == <<negotiated, is_bgra, fmtQ, fmtConv>>

VARIABLES
    aStream,               \* the audio format PipeWire has finalized; rate 0 before
    aCb,                   \* audio param_changed: "idle" | "rate_stored"
    negotiated_rate,       \* Arc<AtomicU32>, shared with the encode thread
    negotiated_channels,   \* Arc<AtomicU32>, shared with the encode thread
    aPc,                   \* opus_encode_loop: "spawned" | "waited" | "rate_loaded" | "loop"
    device_rate,           \* the loop's local, 0 before it is loaded
    device_channels,       \* the loop's local, 0 before it is loaded
    needs_resample,        \* the loop's local
    device_frame_samples,  \* the loop's local, 0 before it is computed
    aUsed                  \* the last frame drained: what the loop used, what the stream had

audVars == <<aStream, aCb, negotiated_rate, negotiated_channels, aPc, device_rate,
             device_channels, needs_resample, device_frame_samples, aUsed>>

VARIABLES
    capRate,     \* device_rate of the input device
    capCh,       \* device_channels of the input device
    capRing,     \* the capture ring: samples pushed and not yet popped, oldest first
    capPcm,      \* the encode task's pcm_buf
    capFramed,   \* the samples of the frames handed on, in the order handed
    capLens,     \* the length of each frame handed on
    capPc,       \* the encode task: "off" | "sleep" | "framing"
    capNext      \* samples the input callback has pushed; sample k is the k-th pushed

capVars == <<capRate, capCh, capRing, capPcm, capFramed, capLens, capPc, capNext>>

VARIABLES
    rtPc,       \* the decode task: "read" | "payload" | "decoded" | "ended"
    rtLog,      \* what each track.read returned so far: "ok" | "empty" | "bad"
    rtErr,      \* the read error that came: "none" | "closed" | "other"
    rtPushed    \* the packets whose samples were pushed, by their place in rtLog

rtVars == <<rtPc, rtLog, rtErr, rtPushed>>

VARIABLES
    evGen,      \* AudioCapture::start calls so far; the last one's task is running
    evLoopRx,   \* the start whose event receiver run_event_loop holds; 0: none
    evChan,     \* per start: the Speaking values sent and not yet received
    evSent,     \* per start: the Speaking transitions its encode task has sent
    evUi        \* the voice:speaking events emitted to the UI, in order

evVars == <<evGen, evLoopRx, evChan, evSent, evUi>>

VARIABLES
    outDev,     \* rate and channels of the open output device; rate 0: none open
    outLoop,    \* device_rate and device_channels moved into run_event_loop
    outTasks,   \* per decode task: the device_rate and device_channels it was given
    outPush     \* the last push: the format of the samples, the device open then

outVars == <<outDev, outLoop, outTasks, outPush>>

VARIABLES
    hsStop,       \* the session's stop flag
    hsPc,         \* the H.264 worker: "recv" | "stop_test" | "dims" | "preview" | "encode" | "exited"
    hsFrames,     \* frames the worker has received
    hsSamples,    \* samples written to the video track after the flag was set
    hsPreviews    \* preview JPEGs published after the flag was set

hsVars == <<hsStop, hsPc, hsFrames, hsSamples, hsPreviews>>

VARIABLES
    rsRate,     \* device_rate of the loop observed
    rsCh,       \* device_channels of the loop observed
    rsPc,       \* "off" | "start" | "frame" | "stereo" | "pcm" | "encoded"
    rsLen       \* length of the vector in hand, in samples

rsVars == <<rsRate, rsCh, rsPc, rsLen>>

VARIABLES
    sgPc,       \* the pending screen signalling command, "idle" if none
    sgRes       \* what the last one returned, "none" while one is pending

sgVars == <<sgPc, sgRes>>

\* More parts observed on their own.
lateVars == <<fmtVars, audVars, capVars, rtVars, evVars, outVars, hsVars, rsVars, sgVars>>

hVars == <<hPc, encW, encH, pending, frame_count, forcedAt, hLast, hDropped>>

prVars == <<content_w, content_h, crop_counter, cached_crop, pOut, pDet, pEmptyRun,
            pSince>>

\* The data paths observed on their own.
dataVars == <<frVars, mixVars, crVars, prVars, hVars, iVars, lateVars>>

auxVars == <<spkVars, mjVars, dataVars>>

vars == <<driven, screenVars, voiceVars, encVars, wkVars, auxVars>>

\* A step of the screen engine or of one of its tasks.
ScreenTurn == driven = "screen" /\ UNCHANGED <<driven, voiceVars, encVars, wkVars, auxVars>>
\* A step of the voice engine or of one of its tasks.
VoiceTurn == driven = "voice" /\ UNCHANGED <<driven, screenVars, encVars, wkVars, auxVars>>

(***************************************************************************)
(* Screen engine                                                           *)
(***************************************************************************)

\* ScreenEngine::new and ScreenCapture::new.
ScreenInit ==
    /\ screen = [peer |-> 0, stop_flag |-> 0, task_handle |-> 0,
                 event_handle |-> 0, mjpeg_server |-> 0]
    /\ pc = [c \in Cmds |-> "idle"]
    /\ res = [c \in Cmds |-> "none"]
    /\ port = [c \in Cmds |-> 0]
    /\ nSetups = 0
    /\ srv = [k \in Setups |-> "none"]
    /\ peer = [k \in Setups |-> "none"]
    /\ evt = [k \in Setups |-> "none"]
    /\ sess = [k \in Setups |-> "none"]
    /\ sessFlag = [k \in Setups |-> 0]
    /\ workers = [k \in Setups |-> FALSE]
    /\ flagVal = [f \in 0..MaxSetups |-> FALSE]

\* ScreenCapture::stop: store true into the current flag, abort the task handle.
ScreenCapture_stop ==
    /\ flagVal' = [flagVal EXCEPT ![screen.stop_flag] = TRUE]
    /\ sess' = IF screen.task_handle # 0
               THEN [sess EXCEPT ![screen.task_handle] = "aborted"]
               ELSE sess

\* MjpegServer::stop of the server the engine holds, if any.
MjpegServer_stop ==
    srv' = IF screen.mjpeg_server # 0
           THEN [srv EXCEPT ![screen.mjpeg_server] = "stopped"]
           ELSE srv

\* A stop that forgets the MJPEG server (mutant of ScreenEngine_stop).
ScreenEngine_stop_KeepsServer ==
    /\ ScreenCapture_stop
    /\ srv' = srv
    /\ evt' = IF screen.event_handle # 0
              THEN [evt EXCEPT ![screen.event_handle] = "aborted"]
              ELSE evt
    /\ peer' = IF screen.peer # 0
               THEN [peer EXCEPT ![screen.peer] = "closing"]
               ELSE peer
    /\ screen' = [screen EXCEPT !.task_handle = 0, !.event_handle = 0, !.peer = 0]

\* ScreenEngine::stop.
ScreenEngine_stop ==
    /\ ScreenCapture_stop
    /\ MjpegServer_stop
    /\ evt' = IF screen.event_handle # 0
              THEN [evt EXCEPT ![screen.event_handle] = "aborted"]
              ELSE evt
    /\ peer' = IF screen.peer # 0
               THEN [peer EXCEPT ![screen.peer] = "closing"]
               ELSE peer
    /\ screen' = [screen EXCEPT !.task_handle = 0, !.mjpeg_server = 0,
                                !.event_handle = 0, !.peer = 0]

\* The UI invokes screen_start: the command waits for the engine lock.
InvokeScreenStart(c) ==
    /\ ScreenTurn
    /\ pc[c] = "idle"
    /\ pc' = [pc EXCEPT ![c] = "lock1"]
    /\ res' = [res EXCEPT ![c] = "none"]
    /\ port' = [port EXCEPT ![c] = 0]
    /\ UNCHANGED <<screen, nSetups, srv, peer, evt, sess, sessFlag, workers, flagVal>>

\* screen_start, first critical section: stop any existing session, drop the lock.
ScreenStartStopOld(c) ==
    /\ ScreenTurn
    /\ pc[c] = "lock1"
    /\ ScreenEngine_stop
    /\ pc' = [pc EXCEPT ![c] = "portal"]
    /\ UNCHANGED <<res, port, nSetups, sessFlag, workers>>

\* portal_start_screencast succeeded: the command waits for the lock again.
PortalOk(c) ==
    /\ ScreenTurn
    /\ pc[c] = "portal"
    /\ pc' = [pc EXCEPT ![c] = "lock2"]
    /\ UNCHANGED <<screen, res, port, nSetups, srv, peer, evt, sess, sessFlag, workers, flagVal>>

\* A start that binds the preview server before the portal answers, so that a
\* cancelled picker leaves it bound (mutant of PortalCancel).
PortalCancel_ServerFirst(c) ==
    /\ ScreenTurn
    /\ pc[c] = "portal"
    /\ nSetups < MaxSetups
    /\ nSetups' = nSetups + 1
    /\ srv' = [srv EXCEPT ![nSetups + 1] = "running"]
    /\ screen' = [screen EXCEPT !.mjpeg_server = nSetups + 1]
    /\ pc' = [pc EXCEPT ![c] = "idle"]
    /\ res' = [res EXCEPT ![c] = "err_portal"]
    /\ UNCHANGED <<port, peer, evt, sess, sessFlag, workers, flagVal>>

\* portal_start_screencast failed (the user cancelled the picker): `?` returns.
PortalCancel(c) ==
    /\ ScreenTurn
    /\ pc[c] = "portal"
    /\ pc' = [pc EXCEPT ![c] = "idle"]
    /\ res' = [res EXCEPT ![c] = "err_portal"]
    /\ UNCHANGED <<screen, port, nSetups, srv, peer, evt, sess, sessFlag, workers, flagVal>>

\* Second critical section, MjpegServer::start fails to bind: `?` returns.
SetupBindFail(c) ==
    /\ ScreenTurn
    /\ pc[c] = "lock2"
    /\ pc' = [pc EXCEPT ![c] = "idle"]
    /\ res' = [res EXCEPT ![c] = "err_bind"]
    /\ UNCHANGED <<screen, port, nSetups, srv, peer, evt, sess, sessFlag, workers, flagVal>>

\* Second critical section, the server is started and stored, then
\* ScreenPeer::new fails: `?` returns.
SetupPeerFail(c) ==
    /\ ScreenTurn
    /\ pc[c] = "lock2"
    /\ nSetups < MaxSetups
    /\ LET k == nSetups + 1 IN
        /\ nSetups' = k
        /\ srv' = [srv EXCEPT ![k] = "running"]
        /\ screen' = [screen EXCEPT !.mjpeg_server = k]
    /\ pc' = [pc EXCEPT ![c] = "idle"]
    /\ res' = [res EXCEPT ![c] = "err_peer"]
    /\ UNCHANGED <<port, peer, evt, sess, sessFlag, workers, flagVal>>

\* A start that resets and reuses the engine's flag instead of creating one
\* (mutant of ScreenCapture_start).
ScreenCapture_start_ReusesFlag(k) ==
    /\ flagVal' = [flagVal EXCEPT ![screen.stop_flag] = FALSE]
    /\ sessFlag' = [sessFlag EXCEPT ![k] = screen.stop_flag]
    /\ sess' = [sess EXCEPT ![k] = "spawned"]

\* ScreenCapture::start: a fresh flag (false) for the session, spawn run_capture.
ScreenCapture_start(k) ==
    /\ flagVal' = [flagVal EXCEPT ![k] = FALSE]
    /\ sessFlag' = [sessFlag EXCEPT ![k] = k]
    /\ sess' = [sess EXCEPT ![k] = "spawned"]

\* Second critical section, everything succeeds.
SetupOk(c) ==
    /\ ScreenTurn
    /\ pc[c] = "lock2"
    /\ nSetups < MaxSetups
    /\ LET k == nSetups + 1 IN
        /\ nSetups' = k
        /\ srv' = [srv EXCEPT ![k] = "running"]
        /\ peer' = [peer EXCEPT ![k] = "open"]
        /\ ScreenCapture_start(k)
        /\ evt' = [evt EXCEPT ![k] = "running"]
        /\ screen' = [peer |-> k, stop_flag |-> sessFlag'[k], task_handle |-> k,
                      event_handle |-> k, mjpeg_server |-> k]
        /\ port' = [port EXCEPT ![c] = k]
    /\ pc' = [pc EXCEPT ![c] = "idle"]
    /\ res' = [res EXCEPT ![c] = "ok"]
    /\ UNCHANGED <<workers>>

\* The UI invokes screen_stop: the command waits for the engine lock.
InvokeScreenStop(c) ==
    /\ ScreenTurn
    /\ pc[c] = "idle"
    /\ pc' = [pc EXCEPT ![c] = "stop_lock"]
    /\ res' = [res EXCEPT ![c] = "none"]
    /\ port' = [port EXCEPT ![c] = 0]
    /\ UNCHANGED <<screen, nSetups, srv, peer, evt, sess, sessFlag, workers, flagVal>>

\* screen_stop under the lock.
ScreenStop(c) ==
    /\ ScreenTurn
    /\ pc[c] = "stop_lock"
    /\ ScreenEngine_stop
    /\ pc' = [pc EXCEPT ![c] = "idle"]
    /\ res' = [res EXCEPT ![c] = "stop_ok"]
    /\ UNCHANGED <<port, nSetups, sessFlag, workers>>

\* The spawned run_capture task is polled: it spawns the session's workers
\* and waits for the encoder worker.
RunCaptureBegin(k) ==
    /\ ScreenTurn
    /\ sess[k] = "spawned"
    /\ sess' = [sess EXCEPT ![k] = "running"]
    /\ workers' = [workers EXCEPT ![k] = TRUE]
    /\ UNCHANGED <<screen, pc, res, port, nSetups, srv, peer, evt, sessFlag, flagVal>>

\* The task spawned by ScreenEngine::stop finishes peer.close().
PeerCloseDone(k) ==
    /\ ScreenTurn
    /\ peer[k] = "closing"
    /\ peer' = [peer EXCEPT ![k] = "closed"]
    /\ UNCHANGED <<screen, pc, res, port, nSetups, srv, evt, sess, sessFlag, workers, flagVal>>

(***************************************************************************)
(* Voice engine                                                            *)
(***************************************************************************)
\* VoiceEngine::new, AudioCapture::new, AudioPlayback::new.
VoiceInit ==
    /\ voice = [peer |-> 0, stream |-> FALSE, encode_handle |-> 0, event_rx |-> 0,
                play_stream |-> FALSE, mix_producer |-> FALSE, event_handle |-> 0,
                input_device |-> "none", output_device |-> "none"]
    /\ vpc = [cmd |-> "idle", arg |-> "none"]
    /\ vres = "none"
    /\ nVPeers = 0
    /\ madePeer = FALSE
    /\ vpeer = [k \in VoicePeers |-> "none"]
    /\ vevt = [k \in VoicePeers |-> "none"]
    /\ nCaptures = 0
    /\ venc = [k \in Captures |-> "none"]
    /\ vtrack = [k \in Captures |-> 0]
    /\ vdec = [k \in VoicePeers |-> "none"]

\* AudioPlayback::start by outcome: "early" fails before any field is written
\* (device lookup, default config), "late" fails after the mix producer was
\* stored (build_output_stream, play), "ok" stores the stream.
AudioPlayback_start(v, o) ==
    CASE o = "early" -> v
      [] o = "late" -> [v EXCEPT !.mix_producer = TRUE]
      [] OTHER -> [v EXCEPT !.mix_producer = TRUE, !.play_stream = TRUE]

\* AudioPlayback::stop.
AudioPlayback_stop(v) ==
    [v EXCEPT !.play_stream = FALSE, !.mix_producer = FALSE]

\* AudioCapture::start succeeded as encode task k: every `?` of start comes
\* before its first field write, so a failed start changes nothing.
AudioCapture_start(v, k) ==
    [v EXCEPT !.stream = TRUE, !.event_rx = k, !.encode_handle = k]

\* AudioCapture::stop (the abort of the encode task is in AbortEncode).
AudioCapture_stop(v) ==
    [v EXCEPT !.stream = FALSE, !.encode_handle = 0, !.event_rx = 0]

\* handle.abort() on the encode task the capture holds, if any.
AbortEncode(v) ==
    IF v.encode_handle # 0 THEN [venc EXCEPT ![v.encode_handle] = "aborted"] ELSE venc

\* VoiceEngine::stop.
VoiceEngine_stop ==
    /\ venc' = AbortEncode(voice)
    /\ vevt' = IF voice.event_handle # 0
               THEN [vevt EXCEPT ![voice.event_handle] = "aborted"]
               ELSE vevt
    /\ vpeer' = IF voice.peer # 0
                THEN [vpeer EXCEPT ![voice.peer] = "closing"]
                ELSE vpeer
    /\ voice' = [AudioPlayback_stop(AudioCapture_stop(voice))
                    EXCEPT !.event_handle = 0, !.peer = 0]

\* The UI invokes a voice command; it waits for the engine lock, which every
\* voice command holds from its first statement to its return.
VoiceCommands == {"voice_start", "voice_stop", "voice_handle_offer",
                  "voice_handle_ice", "voice_set_input_device",
                  "voice_set_output_device"}

InvokeVoice(cmd, arg) ==
    /\ VoiceTurn
    /\ vpc.cmd = "idle"
    /\ vpc' = [cmd |-> cmd, arg |-> arg]
    /\ vres' = "none"
    /\ UNCHANGED <<voice, madePeer, nVPeers, vpeer, vevt, nCaptures, venc, vtrack, vdec>>

VoiceReturn(r) ==
    /\ vpc' = [cmd |-> "idle", arg |-> "none"]
    /\ vres' = r
    /\ UNCHANGED vdec

\* voice_start: start_playback.
VoiceStart(o) ==
    /\ VoiceTurn
    /\ vpc.cmd = "voice_start"
    /\ IF voice.play_stream
       THEN /\ o = "ok"
            /\ voice' = voice
       ELSE voice' = AudioPlayback_start(voice, o)
    /\ VoiceReturn(IF o = "ok" THEN "ok" ELSE "err_playback")
    /\ UNCHANGED <<madePeer, nVPeers, vpeer, vevt, nCaptures, venc, vtrack>>

\* voice_stop.
VoiceStop ==
    /\ VoiceTurn
    /\ vpc.cmd = "voice_stop"
    /\ VoiceEngine_stop
    /\ madePeer' = FALSE
    /\ VoiceReturn("ok")
    /\ UNCHANGED <<nVPeers, nCaptures, vtrack>>

\* voice_handle_offer with a peer already present: ensure_peer returns at once.
VoiceOfferHavePeer(offerOk) ==
    /\ VoiceTurn
    /\ vpc.cmd = "voice_handle_offer"
    /\ voice.peer # 0
    /\ VoiceReturn(IF offerOk THEN "ok" ELSE "err_offer")
    /\ UNCHANGED <<voice, madePeer, nVPeers, vpeer, vevt, nCaptures, venc, vtrack>>

\* voice_handle_offer, ensure_peer fails in start_playback.
VoiceOfferPlaybackFail(o) ==
    /\ VoiceTurn
    /\ vpc.cmd = "voice_handle_offer"
    /\ voice.peer = 0
    /\ ~voice.play_stream
    /\ o \in {"early", "late"}
    /\ voice' = AudioPlayback_start(voice, o)
    /\ VoiceReturn("err_playback")
    /\ UNCHANGED <<madePeer, nVPeers, vpeer, vevt, nCaptures, venc, vtrack>>

\* The engine after start_playback succeeded or was skipped.
AfterStartPlayback(v) ==
    IF v.play_stream THEN v ELSE AudioPlayback_start(v, "ok")

\* voice_handle_offer, ensure_peer fails in Peer::new.
VoiceOfferPeerFail ==
    /\ VoiceTurn
    /\ vpc.cmd = "voice_handle_offer"
    /\ voice.peer = 0
    /\ voice' = AfterStartPlayback(voice)
    /\ VoiceReturn("err_peer")
    /\ UNCHANGED <<madePeer, nVPeers, vpeer, vevt, nCaptures, venc, vtrack>>

\* voice_handle_offer, ensure_peer fails in capture.start: the peer just
\* created is dropped, never stored and never closed.
VoiceOfferCaptureFail ==
    /\ VoiceTurn
    /\ vpc.cmd = "voice_handle_offer"
    /\ voice.peer = 0
    /\ nVPeers < MaxVoicePeers
    /\ nVPeers' = nVPeers + 1
    /\ madePeer' = TRUE
    /\ vpeer' = [vpeer EXCEPT ![nVPeers + 1] = "open"]
    /\ voice' = AfterStartPlayback(voice)
    /\ VoiceReturn("err_capture")
    /\ UNCHANGED <<vevt, nCaptures, venc, vtrack>>

\* voice_handle_offer, ensure_peer succeeds; peer.handle_offer then succeeds
\* or fails.
VoiceOfferNewPeer(offerOk) ==
    /\ VoiceTurn
    /\ vpc.cmd = "voice_handle_offer"
    /\ voice.peer = 0
    /\ nVPeers < MaxVoicePeers
    /\ nCaptures < MaxCaptures
    /\ LET p == nVPeers + 1
           k == nCaptures + 1
           started == AudioCapture_start(AfterStartPlayback(voice), k)
       IN  /\ nVPeers' = p
           /\ madePeer' = TRUE
           /\ nCaptures' = k
           /\ vpeer' = [vpeer EXCEPT ![p] = "open"]
           /\ venc' = [venc EXCEPT ![k] = "running"]
           /\ vtrack' = [vtrack EXCEPT ![k] = p]
           /\ vevt' = [vevt EXCEPT ![p] = "running"]
           \* capture.event_rx.take(), event_handle, peer
           /\ voice' = [started EXCEPT !.event_rx = 0, !.event_handle = p,
                                       !.peer = p]
    /\ VoiceReturn(IF offerOk THEN "ok" ELSE "err_offer")

\* voice_handle_ice.
VoiceIce(iceOk) ==
    /\ VoiceTurn
    /\ vpc.cmd = "voice_handle_ice"
    /\ voice.peer = 0 => ~iceOk
    /\ VoiceReturn(IF iceOk THEN "ok" ELSE "err_ice")
    /\ UNCHANGED <<voice, madePeer, nVPeers, vpeer, vevt, nCaptures, venc, vtrack>>

\* voice_set_input_device that starts the new capture without stopping the
\* old one.
VoiceSetInputDevice_NoStop(startOk) ==
    /\ VoiceTurn
    /\ vpc.cmd = "voice_set_input_device"
    /\ LET v == [voice EXCEPT !.input_device = vpc.arg]
           k == nCaptures + 1
       IN  IF voice.stream /\ voice.peer # 0
           THEN IF startOk
                THEN /\ nCaptures < MaxCaptures
                     /\ nCaptures' = k
                     /\ venc' = [venc EXCEPT ![k] = "running"]
                     /\ vtrack' = [vtrack EXCEPT ![k] = voice.peer]
                     /\ voice' = AudioCapture_start(v, k)
                ELSE /\ nCaptures' = nCaptures
                     /\ venc' = venc
                     /\ vtrack' = vtrack
                     /\ voice' = v
           ELSE /\ startOk
                /\ voice' = v
                /\ UNCHANGED <<nCaptures, venc, vtrack>>
    /\ VoiceReturn(IF startOk THEN "ok" ELSE "err_capture")
    /\ UNCHANGED <<madePeer, nVPeers, vpeer, vevt>>

\* voice_set_input_device: capture is restarted when it is running in a
\* session; the restart succeeds or fails.
VoiceSetInputDevice(startOk) ==
    /\ VoiceTurn
    /\ vpc.cmd = "voice_set_input_device"
    /\ LET v == [voice EXCEPT !.input_device = vpc.arg]
           k == nCaptures + 1
       IN  IF voice.stream /\ voice.peer # 0
           THEN IF startOk
                THEN /\ nCaptures < MaxCaptures
                     /\ nCaptures' = k
                     /\ venc' = [AbortEncode(voice) EXCEPT ![k] = "running"]
                     /\ vtrack' = [vtrack EXCEPT ![k] = voice.peer]
                     /\ voice' = AudioCapture_start(AudioCapture_stop(v), k)
                ELSE /\ nCaptures' = nCaptures
                     /\ venc' = AbortEncode(voice)
                     /\ vtrack' = vtrack
                     /\ voice' = AudioCapture_stop(v)
           ELSE /\ startOk
                /\ voice' = v
                /\ UNCHANGED <<nCaptures, venc, vtrack>>
    /\ VoiceReturn(IF startOk THEN "ok" ELSE "err_capture")
    /\ UNCHANGED <<madePeer, nVPeers, vpeer, vevt>>

\* voice_set_output_device: the restart of playback succeeds or fails.
VoiceSetOutputDevice(o) ==
    /\ VoiceTurn
    /\ vpc.cmd = "voice_set_output_device"
    /\ LET v == [voice EXCEPT !.output_device = vpc.arg] IN
       IF voice.play_stream
       THEN voice' = AudioPlayback_start(AudioPlayback_stop(v), o)
       ELSE /\ o = "ok"
            /\ voice' = v
    /\ VoiceReturn(IF o = "ok" THEN "ok" ELSE "err_playback")
    /\ UNCHANGED <<madePeer, nVPeers, vpeer, vevt, nCaptures, venc, vtrack>>

\* The task spawned by VoiceEngine::stop finishes peer.close().
VoicePeerCloseDone(k) ==
    /\ VoiceTurn
    /\ vpeer[k] = "closing"
    /\ vpeer' = [vpeer EXCEPT ![k] = "closed"]
    /\ UNCHANGED <<voice, vpc, vres, madePeer, nVPeers, vevt, nCaptures, venc, vtrack, vdec>>

\* The remote side closes peer k's connection, or the connection fails: its
\* tracks are closed; the event loop forwards the state to the UI and goes
\* on; the engine keeps the peer.
RemotePeerClosed(k) ==
    /\ VoiceTurn
    /\ vpeer[k] = "open"
    /\ vpeer' = [vpeer EXCEPT ![k] = "failed"]
    /\ UNCHANGED <<voice, vpc, vres, madePeer, nVPeers, vevt, nCaptures, venc, vtrack, vdec>>

\* run_event_loop of peer k receives RemoteTrack: spawn_decode_task.
SpawnDecode(k) ==
    /\ VoiceTurn
    /\ vevt[k] = "running"
    /\ vpeer[k] = "open"
    /\ vdec[k] = "none"
    /\ vdec' = [vdec EXCEPT ![k] = "reading"]
    /\ UNCHANGED <<voice, vpc, vres, madePeer, nVPeers, vpeer, vevt, nCaptures, venc, vtrack>>

\* Decode task: track.read returns a packet and it is decoded.  The track
\* delivers until the peer connection is closed.
DecodeRead(k) ==
    /\ VoiceTurn
    /\ vdec[k] = "reading"
    /\ vpeer[k] \in {"open", "closing"}
    /\ vdec' = [vdec EXCEPT ![k] = "decoded"]
    /\ UNCHANGED <<voice, vpc, vres, madePeer, nVPeers, vpeer, vevt, nCaptures, venc, vtrack>>

\* Decode task: track.read returns an error; the task ends.
DecodeReadError(k) ==
    /\ VoiceTurn
    /\ vdec[k] = "reading"
    /\ vpeer[k] \in {"failed", "closing", "closed"}
    /\ vdec' = [vdec EXCEPT ![k] = "ended"]
    /\ UNCHANGED <<voice, vpc, vres, madePeer, nVPeers, vpeer, vevt, nCaptures, venc, vtrack>>

\* Decode task: lock mix_producer and, if it holds a producer, push the
\* samples into that producer's ring; then read again.
DecodePush(k) ==
    /\ VoiceTurn
    /\ vdec[k] = "decoded"
    /\ vdec' = [vdec EXCEPT ![k] = "reading"]
    /\ UNCHANGED <<voice, vpc, vres, madePeer, nVPeers, vpeer, vevt, nCaptures, venc, vtrack>>

(***************************************************************************)
(* The audio encode loops: the voice encode task spawned by                *)
(* AudioCapture::start and the screen-audio opus_encode_loop.  `driven`    *)
(* tells which of the two is observed.  Samples are counted in chunks of   *)
(* 1/FrameChunks of device_frame_samples.                                  *)
(***************************************************************************)
OPUS_FRAME_SAMPLES == 960
\* Chunks in one 20 ms frame.
FrameChunks == 2
\* Capacity of the capture ring, in chunks.
RingCap == 2
\* Frames a behaviour takes out of pcm_buf.
MaxFrames == 3

U16 == 2^16

\* u16::wrapping_add(1).
WrappingAdd16(s) == (s + 1) % U16

\* u32::wrapping_add(n) for n < 2^16, on a u32 held as limbs [hi, lo].
WrappingAdd32(t, n) ==
    [lo |-> (t.lo + n) % U16,
     hi |-> (t.hi + ((t.lo + n) \div U16)) % U16]

\* The timestamp after m more frames.
RECURSIVE AddFrames(_, _)
AddFrames(t, m) ==
    IF m = 0 THEN t ELSE AddFrames(WrappingAdd32(t, OPUS_FRAME_SAMPLES), m - 1)

\* The u32 timestamp after n frames from 0: (960 * n) mod 2^32, in limbs.
TimestampAfter(n) ==
    LET a == OPUS_FRAME_SAMPLES * (n % U16)
    IN  [lo |-> a % U16,
         hi |-> ((a \div U16) + OPUS_FRAME_SAMPLES * (n \div U16)) % U16]

\* Histories at which observation begins: a loop just started, a loop about
\* to wrap its u16 sequence, and a loop about to wrap its u32 timestamp
\* (the largest n with 960 * n < 2^32).
WarmFrames == {0, U16 - 1, 4 * (2^30 \div OPUS_FRAME_SAMPLES)}

NoPkt == [seq |-> -1, ts |-> [hi |-> -1, lo |-> -1]]

\* Top of the outer loop: opus_encode_loop tests the stop flag first, the
\* voice task sleeps first.
LoopTop == IF driven = "screen" THEN "head" ELSE "sleep"

\* No encode loop is observed.
EncIdle ==
    /\ ring = 0 /\ pcm_buf = 0 /\ muted = FALSE
    /\ timestamp = TimestampAfter(0) /\ sequence = 0
    /\ encPc = "idle" /\ halt = FALSE
    /\ pkt = NoPkt /\ lastPkt = NoPkt /\ prevPkt = NoPkt
    /\ lastWrite = "none" /\ nFrames = 0 /\ lastFrame = "none"
    /\ framesBefore = 0 /\ everUnmuted = TRUE

\* An encode loop at the top of its outer loop after framesBefore frames:
\* either every one of them was sent, or (voice only) the mute flag was set
\* before start and every one of them was muted.
EncInit ==
    /\ driven \in {"voice", "screen"}
    /\ framesBefore \in WarmFrames
    /\ muted \in (IF driven = "voice" THEN BOOLEAN ELSE {FALSE})
    /\ everUnmuted = ~muted
    /\ timestamp = TimestampAfter(framesBefore)
    /\ sequence = IF muted THEN 0 ELSE framesBefore % U16
    /\ ring = 0 /\ pcm_buf = 0
    /\ encPc = LoopTop /\ halt = FALSE
    /\ pkt = NoPkt /\ lastPkt = NoPkt /\ prevPkt = NoPkt
    /\ lastWrite = "none" /\ nFrames = 0 /\ lastFrame = "none"

EncTurn == UNCHANGED <<driven, screenVars, voiceVars, wkVars, auxVars, framesBefore>>

\* The device callback (cpal input callback, or the audio PipeWire process
\* callback) pushes n chunks; try_push drops what does not fit.
DeviceCallback(n) ==
    /\ EncTurn
    /\ encPc # "exited" /\ ~halt
    /\ ring < RingCap
    /\ ring' = IF ring + n > RingCap THEN RingCap ELSE ring + n
    /\ UNCHANGED <<pcm_buf, muted, timestamp, sequence, encPc, halt, pkt, lastPkt,
                   prevPkt, lastWrite, nFrames, lastFrame, everUnmuted>>

\* AudioCapture::set_muted.
set_muted(m) ==
    /\ EncTurn
    /\ driven = "voice"
    /\ muted # m
    /\ muted' = m
    /\ everUnmuted' = (everUnmuted \/ ~m)
    /\ UNCHANGED <<ring, pcm_buf, timestamp, sequence, encPc, halt, pkt, lastPkt,
                   prevPkt, lastWrite, nFrames, lastFrame>>

\* AudioCapture::stop aborts the encode task; ScreenCapture::stop sets the
\* stop flag the screen loop reads.
EncHalt ==
    /\ EncTurn
    /\ ~halt /\ encPc # "exited"
    /\ halt' = TRUE
    /\ UNCHANGED <<ring, pcm_buf, muted, timestamp, sequence, encPc, pkt, lastPkt,
                   prevPkt, lastWrite, nFrames, lastFrame, everUnmuted>>

\* The aborted voice task is dropped at the await it is suspended in.
EncCancelled ==
    /\ EncTurn
    /\ driven = "voice" /\ halt
    /\ encPc \in {"sleep", "write"}
    /\ encPc' = "exited"
    /\ pkt' = NoPkt
    /\ UNCHANGED <<ring, pcm_buf, muted, timestamp, sequence, halt, lastPkt,
                   prevPkt, lastWrite, nFrames, lastFrame, everUnmuted>>

\* opus_encode_loop: the stop test at the head of the outer loop.
EncHead ==
    /\ EncTurn
    /\ encPc = "head"
    /\ encPc' = IF halt THEN "exited" ELSE "sleep"
    /\ UNCHANGED <<ring, pcm_buf, muted, timestamp, sequence, halt, pkt, lastPkt,
                   prevPkt, lastWrite, nFrames, lastFrame, everUnmuted>>

\* After the 5 ms sleep: drain the ring into pcm_buf.
EncDrain ==
    /\ EncTurn
    /\ encPc = "sleep"
    /\ driven = "voice" => ~halt
    /\ pcm_buf' = pcm_buf + ring
    /\ ring' = 0
    /\ encPc' = "frames"
    /\ UNCHANGED <<muted, timestamp, sequence, halt, pkt, lastPkt, prevPkt,
                   lastWrite, nFrames, lastFrame, everUnmuted>>

\* A mute branch that advances the sequence as well (mutant of FrameMuted).
FrameMuted_AdvancesSequence ==
    /\ timestamp' = WrappingAdd32(timestamp, OPUS_FRAME_SAMPLES)
    /\ sequence' = WrappingAdd16(sequence)
    /\ lastFrame' = "muted"
    /\ UNCHANGED <<encPc, pkt>>

\* A mute branch that still packages the frame (mutant of FrameMuted).
FrameMuted_StillSends ==
    /\ pkt' = [seq |-> sequence, ts |-> timestamp]
    /\ timestamp' = WrappingAdd32(timestamp, OPUS_FRAME_SAMPLES)
    /\ sequence' = sequence
    /\ lastFrame' = "muted"
    /\ encPc' = "write"

\* The mute branch: the timestamp advances, nothing else; `continue`.
FrameMuted ==
    /\ timestamp' = WrappingAdd32(timestamp, OPUS_FRAME_SAMPLES)
    /\ lastFrame' = "muted"
    /\ UNCHANGED <<sequence, encPc, pkt>>

\* encoder.encode failed: logged, `continue`.
FrameEncodeError ==
    /\ lastFrame' = "encode_error"
    /\ UNCHANGED <<timestamp, sequence, encPc, pkt>>

\* Packaging that leaves the sequence number alone (mutant of FramePacket).
FramePacket_SameSequence ==
    /\ pkt' = [seq |-> sequence, ts |-> timestamp]
    /\ sequence' = sequence
    /\ timestamp' = WrappingAdd32(timestamp, OPUS_FRAME_SAMPLES)
    /\ lastFrame' = "encoded"
    /\ encPc' = "write"

\* The frame is encoded: the packet takes the counters, both advance, and
\* the loop goes to write_rtp.
FramePacket ==
    /\ pkt' = [seq |-> sequence, ts |-> timestamp]
    /\ sequence' = WrappingAdd16(sequence)
    /\ timestamp' = WrappingAdd32(timestamp, OPUS_FRAME_SAMPLES)
    /\ lastFrame' = "encoded"
    /\ encPc' = "write"

\* One pass of the inner `while pcm_buf.len() >= device_frame_samples`.
EncFrame(encodeOk) ==
    /\ EncTurn
    /\ encPc = "frames"
    /\ pcm_buf >= FrameChunks
    /\ nFrames < MaxFrames
    /\ pcm_buf' = pcm_buf - FrameChunks
    /\ nFrames' = nFrames + 1
    /\ IF driven = "voice" /\ muted THEN FrameMuted
       ELSE IF encodeOk THEN FramePacket
       ELSE FrameEncodeError
    /\ UNCHANGED <<ring, muted, halt, lastPkt, prevPkt, lastWrite, everUnmuted>>

\* The inner while ends: back to the top of the outer loop.
EncLoopEnd ==
    /\ EncTurn
    /\ encPc = "frames"
    /\ pcm_buf < FrameChunks
    /\ encPc' = LoopTop
    /\ UNCHANGED <<ring, pcm_buf, muted, timestamp, sequence, halt, pkt, lastPkt,
                   prevPkt, lastWrite, nFrames, lastFrame, everUnmuted>>

\* Where the loop continues after write_rtp returned r.  In the voice task
\* a "closed" error runs `break`, which leaves the inner while only.
AfterWrite(r) ==
    IF driven = "voice" /\ r = "closed" THEN LoopTop ELSE "frames"

\* write_rtp returns r for the packet that was built.
EncWrite(r) ==
    /\ EncTurn
    /\ encPc = "write"
    /\ driven = "voice" => ~halt
    /\ prevPkt' = lastPkt
    /\ lastPkt' = pkt
    /\ pkt' = NoPkt
    /\ lastWrite' = r
    /\ encPc' = AfterWrite(r)
    /\ UNCHANGED <<ring, pcm_buf, muted, timestamp, sequence, halt, nFrames,
                   lastFrame, everUnmuted>>

NextEnc ==
    \/ \E n \in 1..RingCap : DeviceCallback(n)
    \/ \E m \in BOOLEAN : set_muted(m)
    \/ EncHalt
    \/ EncCancelled
    \/ EncHead
    \/ EncDrain
    \/ \E ok \in BOOLEAN : EncFrame(ok)
    \/ EncLoopEnd
    \/ \E r \in {"ok", "closed", "error"} : EncWrite(r)

(***************************************************************************)
(* The workers of one screen capture session (run_capture): the video      *)
(* PipeWire thread, the H.264 worker, the audio PipeWire thread and the    *)
(* opus_encode_loop thread, all holding the session's stop flag.           *)
(***************************************************************************)
\* Capacity of the frame channel.
ChanCap == 4

WkTurn == UNCHANGED <<driven, screenVars, voiceVars, encVars, auxVars>>

\* run_capture has spawned the audio thread, the video thread and the H.264
\* worker; the flag is the fresh one of ScreenCapture::start.
WorkersInit ==
    /\ wStop = FALSE
    /\ vPw = "init" /\ vBuf = FALSE
    /\ chan = 0 /\ txOpen = TRUE /\ rxOpen = TRUE
    /\ h264 = "first_recv"
    /\ aPw = "init" /\ aBuf = FALSE
    /\ opus = "none"

\* ScreenCapture::stop stores true into the flag.
StopFlagSet ==
    /\ WkTurn
    /\ ~wStop
    /\ wStop' = TRUE
    /\ UNCHANGED <<vPw, vBuf, chan, txOpen, rxOpen, h264, aPw, aBuf, opus>>

\* pipewire_capture_loop up to mainloop.run(): any `?` returns and drops
\* frame_tx.
VideoConnect(ok) ==
    /\ WkTurn
    /\ vPw = "init"
    /\ vPw' = IF ok THEN "running" ELSE "exited"
    /\ txOpen' = ok
    /\ UNCHANGED <<wStop, vBuf, chan, rxOpen, h264, aPw, aBuf, opus>>

\* PipeWire has a video buffer ready: the main loop will call process.
VideoBuffer ==
    /\ WkTurn
    /\ vPw \in {"running", "quitting"}
    /\ ~vBuf
    /\ vBuf' = TRUE
    /\ UNCHANGED <<wStop, vPw, chan, txOpen, rxOpen, h264, aPw, aBuf, opus>>

\* A process callback without the stop test (mutant of VideoProcess).
VideoProcess_NoStopTest(out) ==
    /\ WkTurn
    /\ vPw \in {"running", "quitting"}
    /\ vBuf
    /\ vBuf' = FALSE
    /\ IF vPw = "quitting" \/ out = "drop"
       THEN UNCHANGED <<vPw, chan>>
       ELSE IF ~rxOpen
       THEN vPw' = "quitting" /\ chan' = chan
       ELSE /\ vPw' = vPw
            /\ chan' = IF chan < ChanCap THEN chan + 1 ELSE chan
    /\ UNCHANGED <<wStop, txOpen, rxOpen, h264, aPw, aBuf, opus>>

\* The video process callback: returns if stopped; quits the main loop if
\* the flag is set; else drops the buffer or try_sends a frame (Full: frame
\* dropped; Closed: quit).
VideoProcess(out) ==
    /\ WkTurn
    /\ vPw \in {"running", "quitting"}
    /\ vBuf
    /\ vBuf' = FALSE
    /\ IF vPw = "quitting"
       THEN UNCHANGED <<vPw, chan>>
       ELSE IF wStop
       THEN vPw' = "quitting" /\ chan' = chan
       ELSE IF out = "drop"
       THEN UNCHANGED <<vPw, chan>>
       ELSE IF ~rxOpen
       THEN vPw' = "quitting" /\ chan' = chan
       ELSE /\ vPw' = vPw
            /\ chan' = IF chan < ChanCap THEN chan + 1 ELSE chan
    /\ UNCHANGED <<wStop, txOpen, rxOpen, h264, aPw, aBuf, opus>>

\* mainloop.run() returns after quit(); the function returns, dropping
\* frame_tx.
VideoReturn ==
    /\ WkTurn
    /\ vPw = "quitting"
    /\ vPw' = "exited"
    /\ vBuf' = FALSE
    /\ txOpen' = FALSE
    /\ UNCHANGED <<wStop, chan, rxOpen, h264, aPw, aBuf, opus>>

\* frame_rx.recv() in the H.264 worker: a queued frame, or None once the
\* channel is empty and the sender is gone.
H264Recv ==
    /\ WkTurn
    /\ h264 \in {"first_recv", "recv"}
    /\ chan > 0 \/ ~txOpen
    /\ IF chan > 0
       THEN /\ chan' = chan - 1
            /\ h264' = IF h264 = "first_recv" THEN "init" ELSE "frame"
            /\ rxOpen' = rxOpen
       ELSE /\ h264' = "exited"
            /\ rxOpen' = FALSE
            /\ chan' = chan
    /\ UNCHANGED <<wStop, vPw, vBuf, txOpen, aPw, aBuf, opus>>

\* Encoder::with_api_config after the first frame.
H264Init(ok) ==
    /\ WkTurn
    /\ h264 = "init"
    /\ h264' = IF ok THEN "frame" ELSE "exited"
    /\ rxOpen' = ok
    /\ chan' = IF ok THEN chan ELSE 0
    /\ UNCHANGED <<wStop, vPw, vBuf, txOpen, aPw, aBuf, opus>>

\* The H.264 loop with a frame in hand: break if the flag is set, else
\* handle the frame and go back to recv.
H264Frame ==
    /\ WkTurn
    /\ h264 = "frame"
    /\ h264' = IF wStop THEN "exited" ELSE "recv"
    /\ rxOpen' = ~wStop
    /\ chan' = IF wStop THEN 0 ELSE chan
    /\ UNCHANGED <<wStop, vPw, vBuf, txOpen, aPw, aBuf, opus>>

\* pipewire_audio_capture_loop up to mainloop.run(): any `?` returns before
\* the Opus thread is spawned.
AudioConnect(ok) ==
    /\ WkTurn
    /\ aPw = "init"
    /\ aPw' = IF ok THEN "running" ELSE "exited"
    /\ opus' = IF ok THEN "init" ELSE opus
    /\ UNCHANGED <<wStop, vPw, vBuf, chan, txOpen, rxOpen, h264, aBuf>>

\* PipeWire has an audio buffer ready.
AudioBuffer ==
    /\ WkTurn
    /\ aPw \in {"running", "quitting"}
    /\ ~aBuf
    /\ aBuf' = TRUE
    /\ UNCHANGED <<wStop, vPw, vBuf, chan, txOpen, rxOpen, h264, aPw, opus>>

\* The audio process callback: returns if stopped; quits the main loop if
\* the flag is set; else pushes the samples into the ring.
AudioProcess ==
    /\ WkTurn
    /\ aPw \in {"running", "quitting"}
    /\ aBuf
    /\ aBuf' = FALSE
    /\ aPw' = IF aPw = "running" /\ wStop THEN "quitting" ELSE aPw
    /\ UNCHANGED <<wStop, vPw, vBuf, chan, txOpen, rxOpen, h264, opus>>

\* The audio mainloop.run() returns after quit().
AudioReturn ==
    /\ WkTurn
    /\ aPw = "quitting"
    /\ aPw' = "exited"
    /\ aBuf' = FALSE
    /\ UNCHANGED <<wStop, vPw, vBuf, chan, txOpen, rxOpen, h264, opus>>

\* opus_encode_loop before its loop: runtime and encoder creation.
OpusStart(ok) ==
    /\ WkTurn
    /\ opus = "init"
    /\ opus' = IF ok THEN "head" ELSE "exited"
    /\ UNCHANGED <<wStop, vPw, vBuf, chan, txOpen, rxOpen, h264, aPw, aBuf>>

\* opus_encode_loop: the stop test at the head of the loop.
OpusHead ==
    /\ WkTurn
    /\ opus = "head"
    /\ opus' = IF wStop THEN "exited" ELSE "body"
    /\ UNCHANGED <<wStop, vPw, vBuf, chan, txOpen, rxOpen, h264, aPw, aBuf>>

\* opus_encode_loop: sleep, drain, encode and write what is there.
OpusBody ==
    /\ WkTurn
    /\ opus = "body"
    /\ opus' = "head"
    /\ UNCHANGED <<wStop, vPw, vBuf, chan, txOpen, rxOpen, h264, aPw, aBuf>>

NextWorkers ==
    \/ StopFlagSet
    \/ \E ok \in BOOLEAN : VideoConnect(ok)
    \/ VideoBuffer
    \/ \E out \in {"drop", "send"} : VideoProcess(out)
    \/ VideoReturn
    \/ H264Recv
    \/ \E ok \in BOOLEAN : H264Init(ok)
    \/ H264Frame
    \/ \E ok \in BOOLEAN : AudioConnect(ok)
    \/ AudioBuffer
    \/ AudioProcess
    \/ AudioReturn
    \/ \E ok \in BOOLEAN : OpusStart(ok)
    \/ OpusHead
    \/ OpusBody

\* Every step of a worker's own code is eventually taken when it can be.
\* Nothing is assumed about when PipeWire has a buffer or when stop is called.
FairWorkers ==
    /\ WF_vars(\E ok \in BOOLEAN : VideoConnect(ok))
    /\ WF_vars(\E out \in {"drop", "send"} : VideoProcess(out))
    /\ WF_vars(VideoReturn)
    /\ WF_vars(H264Recv)
    /\ WF_vars(\E ok \in BOOLEAN : H264Init(ok))
    /\ WF_vars(H264Frame)
    /\ WF_vars(\E ok \in BOOLEAN : AudioConnect(ok))
    /\ WF_vars(AudioProcess)
    /\ WF_vars(AudioReturn)
    /\ WF_vars(\E ok \in BOOLEAN : OpusStart(ok))
    /\ WF_vars(OpusHead)
    /\ WF_vars(OpusBody)

\* No capture session's workers are observed.
WorkersIdle ==
    /\ wStop = FALSE /\ vPw = "idle" /\ vBuf = FALSE /\ chan = 0
    /\ txOpen = FALSE /\ rxOpen = FALSE /\ h264 = "idle"
    /\ aPw = "idle" /\ aBuf = FALSE /\ opus = "none"

(***************************************************************************)
(* Properties of the engines (checked under Spec)                          *)
(***************************************************************************)
Flags == 0..MaxSetups

\* The screen engine references nothing.
ScreenIdle ==
    /\ screen.peer = 0
    /\ screen.task_handle = 0
    /\ screen.event_handle = 0
    /\ screen.mjpeg_server = 0

\* Capture sessions whose workers run with a stop flag that is still false.
LiveSessions == {k \in Setups : workers[k] /\ ~flagVal[sessFlag[k]]}
RunningServers == {k \in Setups : srv[k] = "running"}
\* Peers on which close() was never called.
OpenPeers == {k \in Setups : peer[k] = "open"}
StartedSessions == {k \in Setups : sess[k] # "none"}

\* C4 (as claimed): under any interleaving of screen_start and screen_stop
\* there is at most one live capture session, one running MJPEG server and
\* one open peer, and each of them is the one the engine references.
C4_AtMostOneOfEach ==
    /\ Cardinality(LiveSessions) <= 1
    /\ Cardinality(RunningServers) <= 1
    /\ Cardinality(OpenPeers) <= 1
    /\ \A k \in LiveSessions : screen.stop_flag = sessFlag[k]
    /\ \A k \in RunningServers : screen.mjpeg_server = k
    /\ \A k \in OpenPeers : screen.peer = k

\* C5: every ScreenCapture::start hands its workers a new flag that starts
\* false and belongs to no earlier session; a flag once true is never reset;
\* a session keeps the flag it was given, so a stopped session stays stopped.
C5_Step ==
    /\ \A f \in Flags : flagVal[f] => flagVal'[f]
    /\ \A k \in StartedSessions :
          /\ sessFlag'[k] = sessFlag[k]
          /\ flagVal[sessFlag[k]] => flagVal'[sessFlag'[k]]
    /\ \A k \in Setups :
          (sess[k] = "none" /\ sess'[k] # "none") =>
              /\ ~flagVal'[sessFlag'[k]]
              /\ screen'.stop_flag = sessFlag'[k]
              /\ sessFlag'[k] # screen.stop_flag
              /\ \A j \in StartedSessions : sessFlag[j] # sessFlag'[k]

C5_FreshStopFlagPerSession == [][C5_Step]_vars

\* C5 witness: session 1 was stopped, session 2 runs; both have workers.
C5_Witness ==
    /\ workers[1] /\ flagVal[sessFlag[1]]
    /\ workers[2] /\ ~flagVal[sessFlag[2]]

\* A screen_start of slot c returns an error in this step.
StartFails(c) ==
    /\ pc[c] \in {"portal", "lock2"}
    /\ pc'[c] = "idle"
    /\ res'[c] \in {"err_portal", "err_bind", "err_peer"}

\* C6 (as claimed): a screen_start that fails at any setup step leaves no
\* partial state: it leaves no server bound, no peer, no session, and an
\* engine that was Idle when the step began is Idle after it.
C6_Step ==
    \A c \in Cmds : StartFails(c) =>
        /\ RunningServers' \subseteq RunningServers
        /\ OpenPeers' \subseteq OpenPeers
        /\ StartedSessions' = StartedSessions
        /\ ScreenIdle => ScreenIdle'

C6_FailedStartLeavesNothing == [][C6_Step]_vars

\* C7: a screen_start whose portal picker is cancelled returns an error
\* without a preview port; from its invocation to its return it binds no
\* listener and creates no peer or session; its first section leaves the
\* engine Idle and the cancellation changes nothing.
C7_Step ==
    \A c \in Cmds :
        /\ (pc[c] = "lock1" /\ pc'[c] = "portal") =>
              /\ ScreenIdle'
              /\ nSetups' = nSetups
              /\ RunningServers' \subseteq RunningServers
        /\ (pc[c] = "portal" /\ pc'[c] = "idle") =>
              /\ res'[c] = "err_portal"
              /\ port'[c] = 0
              /\ UNCHANGED <<screen, nSetups, srv, peer, evt, sess, sessFlag,
                             workers, flagVal>>

C7_PortalCancelLeavesIdle == [][C7_Step]_vars

\* C7 witness: the first screen_start was cancelled: error, no port, engine
\* Idle, no listener was ever bound.
C7_Witness ==
    /\ res[1] = "err_portal"
    /\ port[1] = 0
    /\ ScreenIdle
    /\ nSetups = 0

\* The state ScreenEngine::stop leaves.
ScreenStopped == ScreenIdle /\ flagVal[screen.stop_flag]

\* The state VoiceEngine::stop leaves.
VoiceStopped ==
    /\ voice.peer = 0
    /\ voice.event_handle = 0
    /\ ~voice.stream
    /\ voice.encode_handle = 0
    /\ voice.event_rx = 0
    /\ ~voice.play_stream
    /\ ~voice.mix_producer

\* C8: screen_stop and voice_stop can run and return ok in every reachable
\* state; the engine then references no peer, event task, capture or
\* playback stream or MJPEG server; a stop of a stopped engine changes nothing.
C8_Step ==
    /\ \A c \in Cmds :
          /\ pc[c] = "stop_lock" => ENABLED ScreenStop(c)
          /\ (pc[c] = "stop_lock" /\ pc'[c] = "idle") =>
                /\ res'[c] = "stop_ok"
                /\ ScreenStopped'
                /\ ScreenStopped =>
                      UNCHANGED <<screen, nSetups, srv, peer, evt, sess,
                                  sessFlag, workers, flagVal>>
    /\ vpc.cmd = "voice_stop" => ENABLED VoiceStop
    /\ (vpc.cmd = "voice_stop" /\ vpc'.cmd = "idle") =>
          /\ vres' = "ok"
          /\ VoiceStopped'
          /\ VoiceStopped =>
                UNCHANGED <<voice, nVPeers, vpeer, vevt, nCaptures, venc, vtrack>>

C8_StopAlwaysSucceeds == [][C8_Step]_vars

\* C8 witness: a screen_stop returned ok after a start that had failed in
\* ScreenPeer::new (server 1 exists without a peer): the server is stopped.
C8_Witness ==
    /\ \E c \in Cmds : res[c] = "stop_ok"
    /\ srv[1] = "stopped"
    /\ peer[1] = "none"
    /\ ScreenStopped

(***************************************************************************)
(* The speaking detector (voice/speaking.rs), fed one frame per call by    *)
(* the voice encode task.  Levels are fixed-point, 1/10000 of full scale;  *)
(* the smoothing factors are in hundredths.                                *)
(***************************************************************************)
SPEAK_THRESHOLD == 150
EMA_ATTACK == 40
EMA_RELEASE == 5
HOLD_MS == 250
OPUS_FRAME_MS == 20

\* Number of frames fed to the detector.
MaxSpeakFrames == 16

\* RMS levels of the frames: silence, a level under the threshold, a level
\* over it.
RmsLevels == {0, 100, 400}
\* A frame is given by the RMS of its samples; <<>> is a frame of no samples.
Frames == {<<>>} \cup {<<r>> : r \in RmsLevels}

\* SpeakingDetector::new.
SpeakInit ==
    /\ smoothed_rms = 0
    /\ was_speaking = FALSE
    /\ hold_until = 0
    /\ clock_ms = 0
    /\ frame = <<>>
    /\ emit = "none"
    /\ prevEvent = "none"

\* Number of JPEGs published to the preview channel.
MaxPubs == 3

\* HTTP clients of the preview server, one connection each.
Clients == {"c1", "c2"}

\* MjpegServer::start has returned; the channel holds its initial None.
MjInit ==
    /\ mjPub = 0
    /\ mjTx = TRUE
    /\ mjStop = FALSE
    /\ mjAccept = "running"
    /\ conn = [c \in Clients |-> "none"]
    /\ seen = [c \in Clients |-> 0]
    /\ cur = [c \in Clients |-> <<>>]
    /\ sent = [c \in Clients |-> <<>>]

\* Number of frames the process callback builds.
MaxCaptured == 8

\* run_capture has created the frame channel; the workers hold its ends.
FramesInit ==
    /\ fq = <<>>
    /\ fBuilt = 0
    /\ fRxOpen = TRUE
    /\ fPw = "running"
    /\ fGot = <<>>
    /\ fSend = "none"

\* Capacity of the playback ring, in samples.
MixCap == 2
\* Samples of one decoded packet after resampling and channel adaptation.
PktLen == 2
\* Packets each remote track delivers.
MaxPkts == 1
\* Samples the device asks for in one callback.
CbLen == 2
\* Callbacks the device makes.
MaxCallbacks == 2
\* The decode tasks, one per remote track.
Tasks == {1, 2}
\* Master volumes the UI may set (1 stands for the initial 1.0).
Volumes == {1, 2}

\* AudioPlayback::start has split the ring and stored the producer; two
\* remote tracks have arrived and their decode tasks wait in track.read.
MixInit ==
    /\ mixRing = <<>>
    /\ mixHolders = {}
    /\ dpc = [t \in Tasks |-> "read"]
    /\ dPkt = [t \in Tasks |-> 0]
    /\ dIdx = [t \in Tasks |-> 0]
    /\ pushedLog = <<>>
    /\ popLog = <<>>
    /\ lastPush = "none"
    /\ deafened = FALSE
    /\ master_volume = 1
    /\ cbPc = "idle"
    /\ cbVol = 1
    /\ cbDeaf = FALSE
    /\ data = <<>>
    /\ nCb = 0

\* Content widths and heights of the buffers, in pixels.
Dims == {1, 2, 3}
\* Alpha bytes: transparent, translucent, opaque.
Alphas == {0, 128, 255}

\* enum CropResult
FullFrame == [kind |-> "FullFrame", x |-> 0, y |-> 0, w |-> 0, h |-> 0]
Empty == [kind |-> "Empty", x |-> 0, y |-> 0, w |-> 0, h |-> 0]
Cropped(x, y, w, h) == [kind |-> "Cropped", x |-> x, y |-> y, w |-> w, h |-> h]

\* A BGRA buffer of h rows of `stride` bytes: px[y][x] is the alpha byte of
\* content pixel (x, y), pad is the value of the alignment bytes of each row.
Image(w, h, stride, px, pad) ==
    [w |-> w, h |-> h, stride |-> stride, len |-> h * stride, px |-> px, pad |-> pad]

\* Row layouts <<stride, pad>> of a buffer w pixels wide: rows packed, or
\* followed by one pixel of padding filled with zeros or with ones.
Layouts(w) == {<<4 * w, 0>>, <<4 * w + 4, 0>>, <<4 * w + 4, 255>>}

\* img is a buffer of content size w x h with alpha bytes in A.
IsImage(img, w, h, A) ==
    \E px \in [0..(h - 1) -> [0..(w - 1) -> A]] :
        \E l \in Layouts(w) : img = Image(w, h, l[1], px, l[2])

\* No detection is under way.
CropIdle ==
    /\ cImg = Image(1, 1, 4, [y \in {0} |-> [x \in {0} |-> 0]], 0)
    /\ cPc = "idle"
    /\ cRes = FullFrame
    /\ cOut = <<>>

\* Buffers the process callback gets past its early returns.
MaxBuffers == 32
\* Negotiated content widths and heights, in pixels.
ContentDims == {0, 1, 2, 3}
\* chunk.size() and chunk.stride() of the dequeued buffers, in bytes.
Sizes == {0, 8, 12, 16, 24, 32, 36, 48}
Strides == {0, 4, 8, 12, 16}

\* CaptureState as pipewire_capture_loop builds it, for a 2x2 stream.
ProcessInit ==
    /\ content_w = 2
    /\ content_h = 2
    /\ crop_counter = 0
    /\ cached_crop = FullFrame
    /\ pOut = <<>>
    /\ pDet = FALSE
    /\ pEmptyRun = 0
    /\ pSince = 0

\* Frames the encode loop encodes.
MaxEncoded == 180
\* const IDR_INTERVAL
IDR_INTERVAL == 60
\* Sizes <<width, height>> of the frames the process callback sends.
FrameSizes == {<<2, 2>>, <<4, 2>>}

\* What the loop did with a frame of size d.
Handled(d, previewed, converted, encoded, forced) ==
    [w |-> d[1], h |-> d[2], previewed |-> previewed, converted |-> converted,
     encoded |-> encoded, forced |-> forced]

\* The worker waits for its first frame.
VideoEncInit ==
    /\ hPc = "first"
    /\ encW = 0
    /\ encH = 0
    /\ pending = <<>>
    /\ frame_count = 0
    /\ forcedAt = {}
    /\ hLast = Handled(<<0, 0>>, FALSE, FALSE, FALSE, FALSE)
    /\ hDropped = FALSE

\* Even widths and heights of the frames converted.
EvenDims == {2, 4, 6}
\* Values of a colour channel.
Levels == {0, 128, 255}

\* A BGRA buffer of w x h pixels of colour `fill` (<<b, g, r>>), with pixel
\* number `spot` (if any: -1 for none) of colour `ink`; alpha is 255.
Bgra(w, h, fill, spot, ink) ==
    [w |-> w, h |-> h, fill |-> fill, spot |-> spot, ink |-> ink]

\* No conversion is under way.
I420Idle ==
    /\ iImg = Bgra(2, 2, <<0, 0, 0>>, -1, <<0, 0, 0>>)
    /\ iPc = "idle"
    /\ iOut = <<>>

\* Raw video formats the stream offers to PipeWire.
VideoFormats == {"BGRA", "RGBA", "BGRx", "RGBx"}

\* CaptureState as built, before the format is finalized.
FormatInit ==
    /\ negotiated = "none"
    /\ is_bgra = TRUE
    /\ fmtQ = <<>>
    /\ fmtConv = <<>>

\* pipewire_audio_loop before the main loop runs: the atomics hold the
\* offered format, the encode thread has been spawned.
AudioFormatInit ==
    /\ aStream = [rate |-> 0, channels |-> 0]
    /\ aCb = "idle"
    /\ negotiated_rate = 48000
    /\ negotiated_channels = 2
    /\ aPc = "spawned"
    /\ device_rate = 0
    /\ device_channels = 0
    /\ needs_resample = FALSE
    /\ device_frame_samples = 0
    /\ aUsed = <<>>

\* AudioCapture before start.
CaptureInit ==
    /\ capRate = 0 /\ capCh = 0
    /\ capRing = <<>> /\ capPcm = <<>> /\ capFramed = <<>> /\ capLens = <<>>
    /\ capPc = "off"
    /\ capNext = 0

\* A decode task just spawned, at its first track.read.
RemoteTrackInit ==
    /\ rtPc = "read" /\ rtLog = <<>> /\ rtErr = "none" /\ rtPushed = <<>>

\* Captures a session starts: the first by ensure_peer, the others by
\* voice_set_input_device.
MaxGens == 3

\* A VoiceEngine without a peer: no capture, no event loop.
SpeakingEventsInit ==
    /\ evGen = 0 /\ evLoopRx = 0
    /\ evChan = [g \in 1..MaxGens |-> <<>>]
    /\ evSent = [g \in 1..MaxGens |-> 0]
    /\ evUi = <<>>

NoDevice == [rate |-> 0, channels |-> 0]

\* A VoiceEngine without a peer: no output stream, no event loop.
OutputInit ==
    /\ outDev = NoDevice /\ outLoop = NoDevice
    /\ outTasks = <<>> /\ outPush = <<>>

\* The H.264 worker in its loop, waiting for a frame; the flag is clear.
StopWorkerInit ==
    /\ hsStop = FALSE /\ hsPc = "recv"
    /\ hsFrames = 0 /\ hsSamples = 0 /\ hsPreviews = 0

\* No encode loop's frame is followed.
ResampleInit ==
    /\ rsRate = 0 /\ rsCh = 0 /\ rsPc = "off" /\ rsLen = 0

\* No signalling command of the screen engine has been invoked.
SignalInit ==
    /\ sgPc = "idle" /\ sgRes = "none"

LateIdle == FormatInit /\ AudioFormatInit /\ CaptureInit /\ RemoteTrackInit /\ SpeakingEventsInit /\ OutputInit /\ StopWorkerInit /\ ResampleInit /\ SignalInit

DataIdle ==
    /\ FramesInit /\ MixInit /\ CropIdle /\ ProcessInit /\ VideoEncInit /\ I420Idle
    /\ LateIdle

AuxIdle == SpeakInit /\ MjInit /\ DataIdle

SpeakTurn ==
    UNCHANGED <<driven, screenVars, voiceVars, encVars, wkVars, mjVars, dataVars>>

\* EMA smoothing of one frame's RMS.
Ema(rms, smoothed) ==
    LET alpha == IF rms > smoothed THEN EMA_ATTACK ELSE EMA_RELEASE
    IN  (alpha * rms + (100 - alpha) * smoothed) \div 100

\* hold_until after a frame that left the smoothed level at s.
HoldAfter(s, clock, hold) ==
    IF s > SPEAK_THRESHOLD THEN clock + HOLD_MS ELSE hold

\* is_speaking without the hold timer.
IsSpeaking_NoHold(s, clock, hold) == s > SPEAK_THRESHOLD

\* is_speaking: over the threshold, or within the hold time.
IsSpeaking(s, clock, hold) ==
    \/ s > SPEAK_THRESHOLD
    \/ clock < hold

\* A detector that returns its state on every call.
Returned_EveryFrame(is_speaking, was) ==
    IF is_speaking THEN "true" ELSE "false"

\* The return value of process: Some(is_speaking) on a change, else None.
Returned(is_speaking, was) ==
    IF is_speaking # was
    THEN IF is_speaking THEN "true" ELSE "false"
    ELSE "none"

\* SpeakingDetector::process(samples, OPUS_FRAME_MS) on frame f.
SpeakingDetector_process(f) ==
    /\ SpeakTurn
    /\ clock_ms < MaxSpeakFrames * OPUS_FRAME_MS
    /\ frame' = f
    /\ prevEvent' = IF emit # "none" THEN emit ELSE prevEvent
    /\ IF f = <<>>
       THEN /\ emit' = "none"
            /\ UNCHANGED <<smoothed_rms, was_speaking, hold_until, clock_ms>>
       ELSE LET clock == clock_ms + OPUS_FRAME_MS
                s == Ema(f[1], smoothed_rms)
                is_speaking == IsSpeaking(s, clock, hold_until)
            IN  /\ clock_ms' = clock
                /\ smoothed_rms' = s
                /\ hold_until' = HoldAfter(s, clock, hold_until)
                /\ was_speaking' = is_speaking
                /\ emit' = Returned(is_speaking, was_speaking)

NextSpeak == \E f \in Frames : SpeakingDetector_process(f)

InitSpeak ==
    /\ driven = "voice"
    /\ ScreenInit
    /\ VoiceInit
    /\ EncIdle
    /\ WorkersIdle
    /\ SpeakInit
    /\ MjInit
    /\ DataIdle

SpecSpeak == InitSpeak /\ [][NextSpeak]_vars

\* The call just made changed the reported state.
C16_Step ==
    /\ (emit' # "none") <=> (was_speaking' # was_speaking)
    /\ emit' = "true" => (was_speaking' /\ prevEvent' \in {"none", "false"})
    /\ emit' = "false" => (~was_speaking' /\ prevEvent' = "true")
    /\ frame' = <<>> =>
          /\ emit' = "none"
          /\ UNCHANGED <<smoothed_rms, was_speaking, hold_until, clock_ms>>

\* C16: the speaking detector returns an event only on a change of the
\* reported state; the events alternate true, false, true, ... and the first
\* is true; a call with an empty frame returns nothing and changes no field
\* of the detector.
C16_EventsAlternate == [][C16_Step]_vars

\* C16 witness: a second true has followed a false.
C16_Witness ==
    /\ emit = "true"
    /\ prevEvent = "false"

\* clock_ms of the last frame that left the smoothed level over the
\* threshold: that frame set hold_until to its clock plus HOLD_MS.
LastLoud == hold_until - HOLD_MS

\* clock_ms of the first frame after it: the frame at which the smoothed
\* level dropped to the threshold or under it.
FirstQuiet == LastLoud + OPUS_FRAME_MS

\* HOLD_MS in whole frames: the clock advances by OPUS_FRAME_MS per call, so
\* the first call that finds clock_ms >= hold_until comes this long after
\* the last loud frame.
HoldInFrames == ((HOLD_MS + OPUS_FRAME_MS - 1) \div OPUS_FRAME_MS) * OPUS_FRAME_MS

\* C17 as stated: once the smoothed level has dropped under the threshold
\* and stays there, the detector goes on reporting speaking for exactly
\* HOLD_MS (250 ms) and then returns not-speaking, once.
C17_FalseAfterExactlyHold ==
    emit = "false" =>
        /\ prevEvent = "true"
        /\ \/ clock_ms - FirstQuiet = HOLD_MS
           \/ clock_ms - LastLoud = HOLD_MS

\* C17: with 20 ms frames the detector reports speaking as long as clock_ms
\* is under hold_until, and returns not-speaking once, from the first call
\* whose clock has reached hold_until: 260 ms of frames after the last loud
\* frame (HOLD_MS rounded up to whole frames), 240 ms after the level
\* dropped.
C17_FalseAfterHoldInFrames ==
    /\ was_speaking <=> clock_ms < hold_until
    /\ emit = "false" =>
          /\ prevEvent = "true"
          /\ clock_ms - LastLoud = HoldInFrames
          /\ clock_ms - FirstQuiet = HoldInFrames - OPUS_FRAME_MS
          /\ smoothed_rms <= SPEAK_THRESHOLD

\* C17 witness: not-speaking was returned after a hold.
C17_Witness ==
    /\ emit = "false"
    /\ prevEvent = "true"
    /\ ~was_speaking
    /\ clock_ms = hold_until + 10

(***************************************************************************)
(* The MJPEG preview server (screen/preview.rs): the preview watch channel *)
(* fed by the H.264 worker, the accept task, one handler per connection.   *)
(***************************************************************************)
MjTurn ==
    UNCHANGED <<driven, screenVars, voiceVars, encVars, wkVars, spkVars, dataVars>>

\* The v-th published JPEG: v bytes, each of value v, so that publications
\* differ in content and in length.
Jpeg(v) == [i \in 1..v |-> v]

\* The publication a JPEG's bytes come from.
JpegId(bytes) == bytes[1]

\* The Option<Vec<u8>> in the channel at version v: None at first, then the
\* latest publication.
Value(v) == IF v = 0 THEN <<>> ELSE <<Jpeg(v)>>

\* A part header whose Content-Length is taken from the channel's present
\* value instead of the cloned JPEG.
PartHeader_LatestLength(jpeg) ==
    [t |-> "head", boundary |-> "frame", type |-> "image/jpeg",
     length |-> mjPub]

\* format!("--{}\r\nContent-Type: image/jpeg\r\nContent-Length: {}\r\n\r\n",
\* BOUNDARY, jpeg.len())
PartHeader(jpeg) ==
    [t |-> "head", boundary |-> "frame", type |-> "image/jpeg",
     length |-> Len(jpeg)]

\* H.264 worker: preview_tx.send_replace(Some(jpeg_bytes)).
Publish ==
    /\ MjTurn
    /\ mjTx
    /\ mjPub < MaxPubs
    /\ mjPub' = mjPub + 1
    /\ UNCHANGED <<mjTx, mjStop, mjAccept, conn, seen, cur, sent>>

\* The H.264 worker exits: preview_tx is dropped.
SenderDropped ==
    /\ MjTurn
    /\ mjTx
    /\ mjTx' = FALSE
    /\ UNCHANGED <<mjPub, mjStop, mjAccept, conn, seen, cur, sent>>

\* MjpegServer::stop.
MjStop ==
    /\ MjTurn
    /\ ~mjStop
    /\ mjStop' = TRUE
    /\ mjAccept' = IF mjAccept = "running" THEN "aborted" ELSE mjAccept
    /\ UNCHANGED <<mjPub, mjTx, conn, seen, cur, sent>>

\* Accept task: listener.accept() returns a connection; its handler is
\* spawned with a clone of the server's receiver, which has seen nothing
\* but the initial value.
Accept(c) ==
    /\ MjTurn
    /\ mjAccept = "running"
    /\ conn[c] = "none"
    /\ conn' = [conn EXCEPT ![c] = "request"]
    /\ seen' = [seen EXCEPT ![c] = 0]
    /\ UNCHANGED <<mjPub, mjTx, mjStop, mjAccept, cur, sent>>

\* Accept task: listener.accept() returns an error; the loop breaks.
AcceptError ==
    /\ MjTurn
    /\ mjAccept = "running"
    /\ mjAccept' = "ended"
    /\ UNCHANGED <<mjPub, mjTx, mjStop, conn, seen, cur, sent>>

\* Handler: read the request and write the response headers; either may
\* fail, which returns the error and drops the stream.
Handshake(c, ok) ==
    /\ MjTurn
    /\ conn[c] = "request"
    /\ conn' = [conn EXCEPT ![c] = IF ok THEN "head" ELSE "closed"]
    /\ UNCHANGED <<mjPub, mjTx, mjStop, mjAccept, seen, cur, sent>>

\* Handler: the stop test at the head of the loop.
HandlerHead(c) ==
    /\ MjTurn
    /\ conn[c] = "head"
    /\ conn' = [conn EXCEPT ![c] = IF mjStop THEN "closed" ELSE "waiting"]
    /\ UNCHANGED <<mjPub, mjTx, mjStop, mjAccept, seen, cur, sent>>

\* A receiver that reads the value without marking it seen.
Marked_Nothing(c) == seen[c]

\* The version a receiver has seen after changed() and borrow_and_update().
Marked(c) == mjPub

\* Handler: rx.changed() returns Ok because the channel's version is not
\* the one seen; borrow_and_update reads the present value: Some(data) is
\* cloned, None goes back to the head of the loop.
HandlerChanged(c) ==
    /\ MjTurn
    /\ conn[c] = "waiting"
    /\ seen[c] # mjPub
    /\ seen' = [seen EXCEPT ![c] = Marked(c)]
    /\ IF Value(mjPub) = <<>>
       THEN /\ conn' = [conn EXCEPT ![c] = "head"]
            /\ cur' = cur
       ELSE /\ conn' = [conn EXCEPT ![c] = "w1"]
            /\ cur' = [cur EXCEPT ![c] = Value(mjPub)[1]]
    /\ UNCHANGED <<mjPub, mjTx, mjStop, mjAccept, sent>>

\* Handler: rx.changed() returns Err: nothing unseen and the sender is gone.
HandlerChangedErr(c) ==
    /\ MjTurn
    /\ conn[c] = "waiting"
    /\ seen[c] = mjPub
    /\ ~mjTx
    /\ conn' = [conn EXCEPT ![c] = "closed"]
    /\ UNCHANGED <<mjPub, mjTx, mjStop, mjAccept, seen, cur, sent>>

\* Handler: one of the three write_all calls of a part; a failed write
\* returns the error and drops the stream.
HandlerWrite(c, ok) ==
    /\ MjTurn
    /\ conn[c] \in {"w1", "w2", "w3"}
    /\ IF ok
       THEN /\ sent' = [sent EXCEPT ![c] =
                    Append(@, CASE conn[c] = "w1" -> PartHeader(cur[c])
                                [] conn[c] = "w2" -> [t |-> "jpeg", bytes |-> cur[c]]
                                [] OTHER -> [t |-> "crlf"])]
            /\ conn' = [conn EXCEPT ![c] =
                    CASE conn[c] = "w1" -> "w2"
                      [] conn[c] = "w2" -> "w3"
                      [] OTHER -> "head"]
       ELSE /\ sent' = sent
            /\ conn' = [conn EXCEPT ![c] = "closed"]
    /\ UNCHANGED <<mjPub, mjTx, mjStop, mjAccept, seen, cur>>

\* The steps of connection c's handler task.
HandlerStep(c) ==
    \/ \E ok \in BOOLEAN : Handshake(c, ok)
    \/ HandlerHead(c)
    \/ HandlerChanged(c)
    \/ HandlerChangedErr(c)
    \/ \E ok \in BOOLEAN : HandlerWrite(c, ok)

NextMjpeg ==
    \/ Publish
    \/ SenderDropped
    \/ MjStop
    \/ \E c \in Clients : Accept(c)
    \/ AcceptError
    \/ \E c \in Clients, ok \in BOOLEAN : Handshake(c, ok)
    \/ \E c \in Clients : HandlerHead(c)
    \/ \E c \in Clients : HandlerChanged(c)
    \/ \E c \in Clients : HandlerChangedErr(c)
    \/ \E c \in Clients, ok \in BOOLEAN : HandlerWrite(c, ok)

\* Each handler is a spawned task that the runtime keeps scheduling; the
\* publisher, the clients and the caller of stop are under no obligation.
FairMjpeg == \A c \in Clients : WF_vars(HandlerStep(c))

InitMjpeg ==
    /\ driven = "screen"
    /\ ScreenInit
    /\ VoiceInit
    /\ EncIdle
    /\ WorkersIdle
    /\ SpeakInit
    /\ MjInit
    /\ DataIdle

SpecMjpeg == InitMjpeg /\ [][NextMjpeg]_vars /\ FairMjpeg

\* The publications whose JPEGs connection c was sent, in order.
Delivered(c) ==
    LET jpegs == SelectSeq(sent[c], LAMBDA e : e.t = "jpeg")
    IN  [i \in 1..Len(jpegs) |-> JpegId(jpegs[i].bytes)]

\* C18: preview delivery is latest-wins: a client never gets an earlier
\* publication after a later one, never the same one twice, every JPEG it
\* gets was published, and it gets no more JPEGs than were published.
C18_LatestWins ==
    \A c \in Clients :
        LET d == Delivered(c) IN
        /\ \A i, j \in 1..Len(d) : i < j => d[i] < d[j]
        /\ \A i \in 1..Len(d) : d[i] \in 1..mjPub
        /\ Len(d) <= mjPub

\* C18 witness: a client got publications 1 and 3 and never 2.
C18_Witness ==
    \E c \in Clients : Delivered(c) = <<1, 3>>

\* The writes w form whole parts, possibly followed by the beginning of one:
\* a header naming the boundary, the type and the length of the JPEG that
\* follows it, that JPEG's bytes, and CRLF.
WellFramed(w) ==
    \A i \in 1..Len(w) :
        CASE i % 3 = 1 ->
                /\ w[i].t = "head"
                /\ w[i].boundary = "frame"
                /\ w[i].type = "image/jpeg"
                /\ i < Len(w) => /\ w[i + 1].t = "jpeg"
                                 /\ w[i].length = Len(w[i + 1].bytes)
          [] i % 3 = 2 -> w[i].t = "jpeg"
          [] OTHER -> w[i].t = "crlf"

\* C19: every JPEG is sent as one complete part: the header with boundary
\* frame, Content-Type image/jpeg and a Content-Length that is the length
\* of exactly the JPEG that follows, then the bytes, then CRLF; the parts
\* are whole whenever the handler is between parts, they carry published
\* JPEGs in publication order, and the initial None gives no part.
C19_PartsWellFramed ==
    \A c \in Clients :
        /\ WellFramed(sent[c])
        /\ conn[c] \in {"head", "waiting"} => Len(sent[c]) % 3 = 0
        /\ \A i \in 1..Len(sent[c]) :
              sent[c][i].t = "jpeg" =>
                 \E v \in 1..mjPub : sent[c][i].bytes = Jpeg(v)
        /\ \A i, j \in 1..Len(Delivered(c)) :
              i < j => Delivered(c)[i] < Delivered(c)[j]
        /\ mjPub = 0 => sent[c] = <<>>

\* C19 witness: a client was sent two whole parts, of JPEGs of different
\* lengths, and a later JPEG was published while the second was written.
C19_Witness ==
    \E c \in Clients :
        /\ conn[c] = "head"
        /\ Len(sent[c]) = 6
        /\ sent[c][1].length = 1
        /\ sent[c][4].length = 2
        /\ mjPub = 3

\* No connection is open: each was never accepted or its handler has
\* returned and dropped the stream.
NoOpenConnection == \A c \in Clients : conn[c] \in {"none", "closed"}

\* C20: once MjpegServer::stop has set the flag, every open client
\* connection is eventually closed by its handler.
C20_StopClosesConnections == mjStop ~> NoOpenConnection

(***************************************************************************)
(* The video frame channel (screen/capture.rs): a tokio mpsc channel of    *)
(* capacity ChanCap, filled by try_send in the PipeWire process callback   *)
(* and emptied by frame_rx.recv() in the H.264 worker.  Frames are named   *)
(* by their place in capture order.                                        *)
(***************************************************************************)
FrTurn ==
    UNCHANGED <<driven, screenVars, voiceVars, encVars, wkVars, spkVars, mjVars, mixVars,
                crVars, prVars, hVars, iVars, lateVars>>

\* A try_send that makes room by discarding the oldest queued frame.
Queue_DropsOldest(q, f) ==
    IF Len(q) < ChanCap THEN Append(q, f) ELSE Append(Tail(q), f)

\* The queue after tx.try_send(f) on an open channel: Ok appends, Full
\* returns the frame to the caller, which drops it.
Queue(q, f) ==
    IF Len(q) < ChanCap THEN Append(q, f) ELSE q

\* The process callback builds frame fBuilt + 1 and try_sends it: Closed
\* quits the main loop, Ok and Full return.
FrameTrySend ==
    /\ FrTurn
    /\ fPw = "running"
    /\ fBuilt < MaxCaptured
    /\ fBuilt' = fBuilt + 1
    /\ IF ~fRxOpen
       THEN /\ fSend' = "closed"
            /\ fPw' = "quitting"
            /\ fq' = fq
       ELSE /\ fSend' = IF Len(fq) < ChanCap THEN "ok" ELSE "full"
            /\ fPw' = fPw
            /\ fq' = Queue(fq, fBuilt + 1)
    /\ UNCHANGED <<fRxOpen, fGot>>

\* The H.264 worker: frame_rx.recv() returns the oldest queued frame.
FrameRecv ==
    /\ FrTurn
    /\ fRxOpen
    /\ fq # <<>>
    /\ fGot' = Append(fGot, Head(fq))
    /\ fq' = Tail(fq)
    /\ UNCHANGED <<fBuilt, fRxOpen, fPw, fSend>>

\* The H.264 worker returns: frame_rx is dropped with what it still holds.
FrameRxDropped ==
    /\ FrTurn
    /\ fRxOpen
    /\ fRxOpen' = FALSE
    /\ fq' = <<>>
    /\ UNCHANGED <<fBuilt, fPw, fGot, fSend>>

NextFrames ==
    \/ FrameTrySend
    \/ FrameRecv
    \/ FrameRxDropped

InitFrames ==
    /\ MixInit /\ CropIdle /\ ProcessInit /\ VideoEncInit /\ I420Idle /\ LateIdle
    /\ driven = "screen"
    /\ ScreenInit
    /\ VoiceInit
    /\ EncIdle
    /\ WorkersIdle
    /\ SpeakInit
    /\ MjInit
    /\ FramesInit

SpecFrames == InitFrames /\ [][NextFrames]_vars

\* s is strictly increasing: frames in capture order, none twice.
InCaptureOrder(s) == \A i, j \in 1..Len(s) : i < j => s[i] < s[j]

C21_Inv ==
    /\ Len(fq) <= ChanCap
    /\ InCaptureOrder(fGot \o fq)
    /\ \A i \in 1..Len(fGot \o fq) : (fGot \o fq)[i] \in 1..fBuilt
    /\ (fPw = "running" /\ fBuilt < MaxCaptured) => ENABLED FrameTrySend

C21_Step ==
    (fBuilt' = fBuilt + 1) =>
        /\ (fRxOpen /\ Len(fq) = ChanCap) => (fq' = fq /\ fSend' = "full")
        /\ (fRxOpen /\ Len(fq) < ChanCap) => fq' = Append(fq, fBuilt')
        /\ ~fRxOpen => fPw' = "quitting"
        /\ fRxOpen => fPw' = fPw

\* C21: the frame channel never holds more than 4 frames and the process
\* callback never waits on it: a try_send on a full channel drops the new
\* frame and keeps the queued ones, which the worker receives in capture
\* order; a try_send on a channel whose receiver is gone quits the PipeWire
\* main loop.
C21_FrameChannelBounded == []C21_Inv /\ [][C21_Step]_vars

\* C21 witness: a frame was dropped on a full channel and the worker then
\* received the frames before it and a frame after it.
C21_Witness ==
    /\ fGot = <<1, 2, 3, 4, 6>>
    /\ fBuilt = 6

(***************************************************************************)
(* The playback mix ring (voice/audio_playback.rs, voice/mod.rs): a        *)
(* ringbuf HeapRb whose producer sits in a std Mutex shared by the decode  *)
(* tasks and whose consumer is owned by the output device callback.  A     *)
(* sample is named by its task, packet and index; v is its PCM value.      *)
(***************************************************************************)
MixTurn ==
    UNCHANGED <<driven, screenVars, voiceVars, encVars, wkVars, spkVars, mjVars, frVars,
                crVars, prVars, hVars, iVars, lateVars>>

\* Sample i of packet p of task t, as found in `output`.
Sample(t, p, i) == [t |-> t, p |-> p, i |-> i, v |-> 3 * t + i]

\* A push that makes room by overwriting the oldest sample.
TryPush_Overwrite(rb, s) ==
    IF Len(rb) < MixCap THEN Append(rb, s) ELSE Append(Tail(rb), s)

\* The ring after prod.try_push(s): a full ring returns Err(s) and is left
\* as it was; the caller discards the result.
TryPush(rb, s) ==
    IF Len(rb) < MixCap THEN Append(rb, s) ELSE rb

\* A lock that is handed out whether or not it is held.
MutexFree_Always(holders) == TRUE

\* mix_producer.lock() returns once no other guard is alive.
MutexFree(holders) == holders = {}

\* One output sample written without the volume applied.
OutputSample_NoVolume(deaf, popped, vol) ==
    IF deaf THEN 0
    ELSE IF popped # <<>> THEN popped[1].v
    ELSE 0

\* One output sample: `popped` is <<>> for try_pop() = None, <<s>> for Some(s).
OutputSample(deaf, popped, vol) ==
    IF deaf THEN 0
    ELSE IF popped # <<>> THEN popped[1].v * vol
    ELSE 0

\* track.read returns a packet, it decodes, and `output` holds PktLen samples.
TaskRead(t) ==
    /\ MixTurn
    /\ dpc[t] = "read"
    /\ dPkt[t] < MaxPkts
    /\ dPkt' = [dPkt EXCEPT ![t] = @ + 1]
    /\ dpc' = [dpc EXCEPT ![t] = "lock"]
    /\ UNCHANGED <<mixRing, mixHolders, dIdx, pushedLog, popLog, lastPush, deafened,
                   master_volume, cbPc, cbVol, cbDeaf, data, nCb>>

\* mix_producer.lock() returns the guard.
TaskLock(t) ==
    /\ MixTurn
    /\ dpc[t] = "lock"
    /\ MutexFree(mixHolders)
    /\ mixHolders' = mixHolders \cup {t}
    /\ dpc' = [dpc EXCEPT ![t] = "push"]
    /\ dIdx' = [dIdx EXCEPT ![t] = 1]
    /\ UNCHANGED <<mixRing, dPkt, pushedLog, popLog, lastPush, deafened,
                   master_volume, cbPc, cbVol, cbDeaf, data, nCb>>

\* One turn of `for &sample in &output { let _ = prod.try_push(sample); }`.
TaskPush(t) ==
    /\ MixTurn
    /\ dpc[t] = "push"
    /\ dIdx[t] <= PktLen
    /\ LET s == Sample(t, dPkt[t], dIdx[t])
       IN  /\ mixRing' = TryPush(mixRing, s)
           /\ lastPush' = IF Len(mixRing) < MixCap THEN "ok" ELSE "full"
           /\ pushedLog' = IF Len(mixRing) < MixCap THEN Append(pushedLog, s)
                           ELSE pushedLog
    /\ dIdx' = [dIdx EXCEPT ![t] = @ + 1]
    /\ UNCHANGED <<mixHolders, dpc, dPkt, popLog, deafened, master_volume,
                   cbPc, cbVol, cbDeaf, data, nCb>>

\* The loop is over and the guard goes out of scope.
TaskUnlock(t) ==
    /\ MixTurn
    /\ dpc[t] = "push"
    /\ dIdx[t] > PktLen
    /\ mixHolders' = mixHolders \ {t}
    /\ dpc' = [dpc EXCEPT ![t] = "read"]
    /\ UNCHANGED <<mixRing, dPkt, dIdx, pushedLog, popLog, lastPush, deafened,
                   master_volume, cbPc, cbVol, cbDeaf, data, nCb>>

\* voice_set_deafen
SetDeafened(b) ==
    /\ MixTurn
    /\ deafened # b
    /\ deafened' = b
    /\ UNCHANGED <<mixRing, mixHolders, dpc, dPkt, dIdx, pushedLog, popLog, lastPush,
                   master_volume, cbPc, cbVol, cbDeaf, data, nCb>>

\* voice_set_master_volume
SetMasterVolume(v) ==
    /\ MixTurn
    /\ master_volume # v
    /\ master_volume' = v
    /\ UNCHANGED <<mixRing, mixHolders, dpc, dPkt, dIdx, pushedLog, popLog, lastPush,
                   deafened, cbPc, cbVol, cbDeaf, data, nCb>>

\* The device calls the output callback: it reads the volume and the flag.
CallbackBegin ==
    /\ MixTurn
    /\ cbPc = "idle"
    /\ nCb < MaxCallbacks
    /\ nCb' = nCb + 1
    /\ cbPc' = "fill"
    /\ cbVol' = master_volume
    /\ cbDeaf' = deafened
    /\ data' = <<>>
    /\ UNCHANGED <<mixRing, mixHolders, dpc, dPkt, dIdx, pushedLog, popLog, lastPush,
                   deafened, master_volume>>

\* A turn that pops the ring before it looks at the flag.
CallbackSample_PopsDeafened ==
    /\ MixTurn
    /\ cbPc = "fill"
    /\ Len(data) < CbLen
    /\ LET pops == mixRing # <<>>
           popped == IF pops THEN <<Head(mixRing)>> ELSE <<>>
       IN  /\ data' = Append(data, OutputSample(cbDeaf, popped, cbVol))
           /\ mixRing' = IF pops THEN Tail(mixRing) ELSE mixRing
           /\ popLog' = popLog \o popped
    /\ UNCHANGED <<mixHolders, dpc, dPkt, dIdx, pushedLog, lastPush, deafened,
                   master_volume, cbPc, cbVol, cbDeaf, nCb>>

\* One turn of `for sample in data.iter_mut()`.
CallbackSample ==
    /\ MixTurn
    /\ cbPc = "fill"
    /\ Len(data) < CbLen
    /\ LET pops == ~cbDeaf /\ mixRing # <<>>
           popped == IF pops THEN <<Head(mixRing)>> ELSE <<>>
       IN  /\ data' = Append(data, OutputSample(cbDeaf, popped, cbVol))
           /\ mixRing' = IF pops THEN Tail(mixRing) ELSE mixRing
           /\ popLog' = popLog \o popped
    /\ UNCHANGED <<mixHolders, dpc, dPkt, dIdx, pushedLog, lastPush, deafened,
                   master_volume, cbPc, cbVol, cbDeaf, nCb>>

\* The buffer is full and the callback returns it to the device.
CallbackEnd ==
    /\ MixTurn
    /\ cbPc = "fill"
    /\ Len(data) = CbLen
    /\ cbPc' = "idle"
    /\ data' = <<>>
    /\ UNCHANGED <<mixRing, mixHolders, dpc, dPkt, dIdx, pushedLog, popLog, lastPush,
                   deafened, master_volume, cbVol, cbDeaf, nCb>>

\* The decode tasks of two remote tracks and the device callback, with the
\* deafen flag and the volume left as they are.
NextMix ==
    \/ \E t \in Tasks : TaskRead(t)
    \/ \E t \in Tasks : TaskLock(t)
    \/ \E t \in Tasks : TaskPush(t)
    \/ \E t \in Tasks : TaskUnlock(t)
    \/ CallbackBegin
    \/ CallbackSample
    \/ CallbackEnd

\* The device callback fed by one decode task while the UI sets the deafen
\* flag and the volume.
NextPlay ==
    \/ TaskRead(1)
    \/ TaskLock(1)
    \/ TaskPush(1)
    \/ TaskUnlock(1)
    \/ \E b \in BOOLEAN : SetDeafened(b)
    \/ \E v \in Volumes : SetMasterVolume(v)
    \/ CallbackBegin
    \/ CallbackSample
    \/ CallbackEnd

InitMix ==
    /\ driven = "voice"
    /\ ScreenInit /\ VoiceInit /\ EncIdle /\ WorkersIdle
    /\ SpeakInit /\ MjInit /\ DataIdle

SpecMix == InitMix /\ [][NextMix]_vars

SpecPlay == InitMix /\ [][NextPlay]_vars

C22_Inv ==
    /\ Len(mixRing) <= MixCap
    /\ popLog \o mixRing = pushedLog
    /\ \A t \in Tasks : (dpc[t] = "push" /\ dIdx[t] <= PktLen) => ENABLED TaskPush(t)

C22_Step ==
    \A t \in Tasks :
        (dpc[t] = "push" /\ dIdx'[t] = dIdx[t] + 1) =>
            /\ Len(mixRing) = MixCap => (mixRing' = mixRing /\ lastPush' = "full")
            /\ Len(mixRing) < MixCap =>
                   mixRing' = Append(mixRing, Sample(t, dPkt[t], dIdx[t]))

\* C22: a push never blocks the producer; a push onto a full ring drops the
\* new sample and leaves the buffered samples as they were; the ring never
\* holds more than its capacity; and the samples popped so far followed by
\* the samples still buffered are exactly the stored samples in push order.
C22_RingNeverBlocksFifo == []C22_Inv /\ [][C22_Step]_vars

\* The ring has wrapped around (a sample was popped, more samples than the
\* capacity were stored) and the latest push found it full.
C22_Witness ==
    /\ lastPush = "full"
    /\ Len(mixRing) = MixCap
    /\ Len(popLog) >= 1
    /\ Len(pushedLog) > MixCap

\* The (task, packet) a sample belongs to.
PacketOf(s) == <<s.t, s.p>>

\* No sample of another packet lies between two samples of one packet.
Uninterrupted(log) ==
    \A a, b, c \in 1..Len(log) :
        (a < b /\ b < c /\ PacketOf(log[a]) = PacketOf(log[c]))
            => PacketOf(log[b]) = PacketOf(log[a])

C23_Inv ==
    /\ Cardinality(mixHolders) <= 1
    /\ Uninterrupted(pushedLog)

C23_Step ==
    \A t \in Tasks :
        (dpc[t] = "push" /\ dIdx'[t] = dIdx[t] + 1) => (mixHolders = {t} /\ mixHolders' = {t})

\* C23: at most one decode task is inside the mix-producer lock, every push
\* is made by the task that holds it, and in the order the ring stores them
\* the samples of one packet form one run: no sample of another task's
\* packet lies between them.
C23_PushesUnderLockInRuns == []C23_Inv /\ [][C23_Step]_vars

\* One task is in the middle of its packet, its first sample stored, while
\* the other task has a packet ready and waits for the lock.
C23_Witness ==
    \E t \in Tasks :
        /\ dpc[t] = "push" /\ dIdx[t] = 2
        /\ \E u \in Tasks \ {t} : dpc[u] = "lock"
        /\ pushedLog # <<>> /\ pushedLog[Len(pushedLog)] = Sample(t, dPkt[t], 1)

C24_Inv ==
    /\ cbPc = "fill" => ENABLED (CallbackSample \/ CallbackEnd)
    /\ Len(data) <= CbLen

C24_Step ==
    /\ (cbPc = "idle" /\ cbPc' = "fill") => (cbVol' = master_volume /\ cbDeaf' = deafened)
    /\ (Len(data') = Len(data) + 1) =>
          /\ cbDeaf => (data' = Append(data, 0) /\ mixRing' = mixRing)
          /\ (~cbDeaf /\ mixRing = <<>>) => (data' = Append(data, 0) /\ mixRing' = mixRing)
          /\ (~cbDeaf /\ mixRing # <<>>) =>
                 /\ data' = Append(data, Head(mixRing).v * cbVol)
                 /\ mixRing' = Tail(mixRing)

\* C24: the callback reads the deafen flag and the master volume when it
\* starts; each output sample it then writes is 0 when that flag is set,
\* else the next sample popped from the ring times that volume, else 0 when
\* the ring is empty; and its next step never depends on the ring holding
\* data.
C24_OutputSample == []C24_Inv /\ [][C24_Step]_vars

\* One callback wrote a popped sample at volume 2 and then 0 on underflow.
C24_Witness ==
    /\ cbVol = 2 /\ ~cbDeaf
    /\ Len(data) = 2 /\ data[1] > 0 /\ data[2] = 0
    /\ Len(popLog) = 1 /\ data[1] = 2 * popLog[1].v

(***************************************************************************)
(* Crop detection and frame extraction (screen/capture.rs).  Offsets are   *)
(* byte offsets into the buffer, as in the code; only the alpha bytes of   *)
(* the buffer are represented.                                             *)
(***************************************************************************)
CrTurn ==
    UNCHANGED <<driven, screenVars, voiceVars, encVars, wkVars, spkVars, mjVars, frVars,
                mixVars, prVars, hVars, iVars, lateVars>>

Min(S) == CHOOSE m \in S : \A n \in S : m <= n
Max(S) == CHOOSE m \in S : \A n \in S : m >= n

\* n & !1
Even(n) == n - (n % 2)

\* data[off] for an alpha byte or a padding byte of the buffer.
ByteAt(img, off) ==
    LET col == off % img.stride
    IN  IF col < 4 * img.w THEN img.px[off \div img.stride][col \div 4] ELSE img.pad

\* The alpha closure read with rows taken as packed, whatever the stride.
alpha_at_Packed(img, x, y) ==
    LET off == y * (4 * img.w) + x * 4 + 3
    IN  IF off < img.len THEN ByteAt(img, off) ELSE 0

\* The alpha_at closure of detect_alpha_crop.
alpha_at(img, x, y) ==
    LET off == y * img.stride + x * 4 + 3
    IN  IF off < img.len THEN ByteAt(img, off) ELSE 0

\* detect_alpha_crop(data, w, h, stride)
detect_alpha_crop(img) ==
    LET w == img.w
        h == img.h
        hit == { p \in (0..(w - 1)) \X (0..(h - 1)) : alpha_at(img, p[1], p[2]) > 0 }
        top == Min({h} \cup { p[2] : p \in hit })
        bottom == Max({0} \cup { p[2] : p \in hit })
        left == Min({w} \cup { p[1] : p \in hit })
        right == Max({0} \cup { p[1] : p \in hit })
        cw == right - left + 1
        ch == bottom - top + 1
    IN  IF w = 0 \/ h = 0 THEN Empty
        ELSE IF /\ alpha_at(img, 0, 0) = 255
                /\ alpha_at(img, w - 1, 0) = 255
                /\ alpha_at(img, 0, h - 1) = 255
                /\ alpha_at(img, w - 1, h - 1) = 255
             THEN FullFrame
        ELSE IF top > bottom \/ left > right THEN Empty
        ELSE IF cw >= w /\ ch >= h THEN FullFrame
        ELSE Cropped(left, top, cw, ch)

\* FrameData built by the process callback: `len` is data.len().
FrameData(width, height, len) == [width |-> width, height |-> height, len |-> len]

\* A frame cut to the rounded size but allocated for the size found.
ExtractFrame_Unrounded(crop, w, h) ==
    IF crop.kind = "Empty" THEN <<>>
    ELSE IF crop.kind = "Cropped"
         THEN IF Even(crop.w) = 0 \/ Even(crop.h) = 0 THEN <<>>
              ELSE <<FrameData(Even(crop.w), Even(crop.h), crop.w * crop.h * 4)>>
    ELSE IF Even(w) = 0 \/ Even(h) = 0 THEN <<>>
         ELSE <<FrameData(Even(w), Even(h), w * h * 4)>>

\* The `match state.cached_crop` of the process callback on a buffer of
\* content size w x h: <<>> where it returns without a frame.
ExtractFrame(crop, w, h) ==
    IF crop.kind = "Empty" THEN <<>>
    ELSE IF crop.kind = "Cropped"
         THEN LET cw == Even(crop.w)
                  ch == Even(crop.h)
              IN  IF cw = 0 \/ ch = 0 THEN <<>>
                  ELSE <<FrameData(cw, ch, cw * ch * 4)>>
    ELSE LET ew == Even(w)
             eh == Even(h)
         IN  IF ew = 0 \/ eh = 0 THEN <<>>
             ELSE <<FrameData(ew, eh, ew * eh * 4)>>

CropDetect ==
    /\ CrTurn
    /\ cPc = "in"
    /\ cRes' = detect_alpha_crop(cImg)
    /\ cPc' = "detected"
    /\ UNCHANGED <<cImg, cOut>>

CropExtract ==
    /\ CrTurn
    /\ cPc = "detected"
    /\ cOut' = ExtractFrame(cRes, cImg.w, cImg.h)
    /\ cPc' = "done"
    /\ UNCHANGED <<cImg, cRes>>

NextCrop == CropDetect \/ CropExtract

InitCrop ==
    /\ driven = "screen"
    /\ ScreenInit /\ VoiceInit /\ EncIdle /\ WorkersIdle
    /\ SpeakInit /\ MjInit /\ FramesInit /\ MixInit /\ ProcessInit /\ VideoEncInit
    /\ I420Idle /\ LateIdle
    /\ \E w \in Dims, h \in Dims : IsImage(cImg, w, h, Alphas)
    /\ cPc = "in"
    /\ cRes = FullFrame
    /\ cOut = <<>>

SpecCrop == InitCrop /\ [][NextCrop]_vars

\* The content pixels of a buffer.
Pixels(img) == (0..(img.w - 1)) \X (0..(img.h - 1))

Opaque(img) == \A p \in Pixels(img) : img.px[p[2]][p[1]] = 255
Transparent(img) == \A p \in Pixels(img) : img.px[p[2]][p[1]] = 0
\* Pixel (x, y) is the only one whose alpha is not 0.
OnlyPixel(img, x, y) ==
    \A p \in Pixels(img) : (img.px[p[2]][p[1]] # 0) <=> (p = <<x, y>>)

\* A crop that loses a whole dimension when rounded down to even sizes.
RoundsToNothing(crop) ==
    crop.kind = "Cropped" /\ (Even(crop.w) = 0 \/ Even(crop.h) = 0)

\* The 100x100 buffer whose only non-transparent pixel is (42, 17).
ExampleImage ==
    Image(100, 100, 400,
          [y \in 0..99 |-> [x \in 0..99 |-> IF x = 42 /\ y = 17 THEN 255 ELSE 0]], 0)

ExampleCrop == detect_alpha_crop(ExampleImage)

C26_Common ==
    /\ ExampleCrop = Cropped(42, 17, 1, 1)
    /\ (cPc \in {"detected", "done"} /\ Opaque(cImg)) => cRes = FullFrame
    /\ (cPc \in {"detected", "done"} /\ Transparent(cImg)) => cRes = Empty
    /\ (cPc = "done" /\ RoundsToNothing(cRes)) => cOut = <<>>

\* C26: the detector returns FullFrame for a fully opaque buffer, Empty for
\* a fully transparent one, and Cropped(x, y, 1, 1) for every buffer whose
\* only non-transparent pixel is at (x, y); a crop whose width or height
\* rounds to 0 yields no frame.
C26_CropDetector ==
    /\ C26_Common
    /\ cPc \in {"detected", "done"} =>
           \A p \in Pixels(cImg) :
               OnlyPixel(cImg, p[1], p[2]) => cRes = Cropped(p[1], p[2], 1, 1)

\* C26 as the code has it: the same, with Cropped(x, y, 1, 1) returned when
\* the buffer is larger than the one pixel; a buffer of a single pixel that
\* is not transparent is covered whole by its bounding box and gives
\* FullFrame.
C26_CropDetectorLargerThanPixel ==
    /\ C26_Common
    /\ cPc \in {"detected", "done"} =>
           \A p \in Pixels(cImg) :
               OnlyPixel(cImg, p[1], p[2]) =>
                   cRes = IF cImg.w * cImg.h > 1 THEN Cropped(p[1], p[2], 1, 1)
                          ELSE FullFrame

\* A padded 3x3 buffer whose only non-transparent pixel is the translucent
\* (2, 1): detected as Cropped(2, 1, 1, 1), and the extraction made no frame.
C26_Witness ==
    /\ cPc = "done"
    /\ cImg.w = 3 /\ cImg.h = 3 /\ cImg.stride = 16 /\ cImg.pad = 255
    /\ OnlyPixel(cImg, 2, 1) /\ cImg.px[1][2] = 128
    /\ cRes = Cropped(2, 1, 1, 1)
    /\ cOut = <<>>

(***************************************************************************)
(* The process callback (screen/capture.rs) from the dequeued buffer on:   *)
(* size checks, the periodic crop detection, the extraction and try_send.  *)
(***************************************************************************)
PrTurn ==
    UNCHANGED <<driven, screenVars, voiceVars, encVars, wkVars, spkVars, mjVars, frVars,
                mixVars, crVars, hVars, iVars, lateVars>>

\* A detection made on the first buffer only.
CropDue_Once(counter) == counter = 1

\* `state.crop_counter % 30 == 1`, on the counter already incremented.
CropDue(counter) == counter % 30 = 1

\* param_changed: the negotiated VideoSize is stored.
ParamChanged(w, h) ==
    /\ PrTurn
    /\ <<w, h>> # <<content_w, content_h>>
    /\ content_w' = w
    /\ content_h' = h
    /\ UNCHANGED <<crop_counter, cached_crop, pOut, pDet, pEmptyRun, pSince>>

\* The rows the callback uses of a buffer of `size` bytes.
RowsUsed(size, stride) ==
    LET buf_h == IF stride > 0 THEN size \div stride ELSE 0
    IN  IF content_h < buf_h THEN content_h ELSE buf_h

\* The callback returns before it counts the buffer; `mapped` is false when
\* d.data() is None or shorter than offset + size.
ReturnsEarly(size, stride, mapped) ==
    \/ size = 0 \/ stride = 0
    \/ ~mapped
    \/ content_w = 0 \/ RowsUsed(size, stride) = 0
    \/ stride < content_w * 4

\* The buffers detect_alpha_crop may be handed: w x h content pixels, each
\* transparent or opaque, in `size` bytes of rows `stride` bytes long.
RawImages(w, h, stride, size) ==
    [w : {w}, h : {h}, stride : {stride}, len : {size},
     px : [0..(h - 1) -> [0..(w - 1) -> {0, 255}]], pad : {0}]

\* One call of the process callback on a dequeued buffer.  (crop_counter is
\* a u32; the model stays far below its wrap.)
Process(size, stride, mapped) ==
    /\ PrTurn
    /\ UNCHANGED <<content_w, content_h>>
    /\ IF ReturnsEarly(size, stride, mapped)
       THEN /\ pOut' = <<>>
            /\ pDet' = FALSE
            /\ UNCHANGED <<crop_counter, cached_crop, pEmptyRun, pSince>>
       ELSE LET w == content_w
                h == RowsUsed(size, stride)
            IN  /\ crop_counter < MaxBuffers
                /\ crop_counter' = crop_counter + 1
                /\ pDet' = CropDue(crop_counter')
                /\ IF CropDue(crop_counter')
                   THEN \E img \in RawImages(w, h, stride, size) :
                            cached_crop' = detect_alpha_crop(img)
                   ELSE cached_crop' = cached_crop
                /\ pOut' = ExtractFrame(cached_crop', w, h)
                /\ pEmptyRun' = IF cached_crop'.kind = "Empty" THEN pEmptyRun + 1 ELSE 0
                /\ pSince' = IF CropDue(crop_counter') THEN 0 ELSE pSince + 1

NextProcess ==
    \/ \E w \in ContentDims, h \in ContentDims : ParamChanged(w, h)
    \/ \E size \in Sizes, stride \in Strides, mapped \in BOOLEAN :
           Process(size, stride, mapped)

InitProcess ==
    /\ driven = "screen"
    /\ ScreenInit /\ VoiceInit /\ EncIdle /\ WorkersIdle
    /\ SpeakInit /\ MjInit /\ DataIdle

SpecProcess == InitProcess /\ [][NextProcess]_vars

\* A frame as the encoder worker needs it.
WellFormedFrame(f) ==
    /\ f.width > 0 /\ f.width % 2 = 0
    /\ f.height > 0 /\ f.height % 2 = 0
    /\ f.len = f.width * f.height * 4

\* C25: every frame the process callback puts on the frame channel has a
\* non-zero even width, a non-zero even height, and data of exactly
\* width * height * 4 bytes, whatever the buffer's size and stride, the
\* negotiated size and the crop decision in force.
C25_FramesWellFormed == pOut # <<>> => WellFormedFrame(pOut[1])

\* A frame cut with a crop detected on a 3x3 stream and still cached after
\* the stream was renegotiated to 2x1: the crop no longer fits the buffer.
C25_Witness ==
    /\ pOut # <<>>
    /\ cached_crop.kind = "Cropped" /\ cached_crop.w = 3 /\ cached_crop.h = 2
    /\ content_w = 2 /\ content_h = 1
    /\ ~pDet
    /\ pOut[1] = FrameData(2, 2, 16)

C30_Inv ==
    /\ pSince < 30
    /\ pEmptyRun <= crop_counter
    /\ pEmptyRun > 0 => cached_crop = Empty

C30_Step ==
    /\ crop_counter' \in {crop_counter, crop_counter + 1}
    /\ (crop_counter' = crop_counter) => (cached_crop' = cached_crop /\ pSince' = pSince)
    /\ (crop_counter' = crop_counter + 1) =>
           /\ pDet' <=> (crop_counter % 30 = 0)
           /\ pDet' => pSince' = 0
           /\ ~pDet' => (cached_crop' = cached_crop /\ pSince' = pSince + 1)
           /\ (cached_crop' = Empty) => (pOut' = <<>> /\ pEmptyRun' = pEmptyRun + 1)

\* C30: the crop decision is recomputed on the first buffer the callback
\* processes and on every 30th after it, and the cached decision is used
\* unchanged on the buffers in between; a buffer skipped because the cached
\* decision is Empty is counted like any other, so an Empty decision is
\* looked at again after at most 30 buffers.
C30_CropCadence == []C30_Inv /\ [][C30_Step]_vars

\* Thirty buffers were skipped as Empty and the thirty-first was scanned
\* again, and found Empty again.
C30_Witness ==
    /\ crop_counter = 31
    /\ pDet /\ pSince = 0
    /\ pEmptyRun = 31

(***************************************************************************)
(* The H.264 encode worker (screen/capture.rs, run_capture): the encoder's *)
(* size is taken from the first frame, frames of another size are skipped, *)
(* and force_intra_frame is called by frame_count.                         *)
(***************************************************************************)
HTurn ==
    UNCHANGED <<driven, screenVars, voiceVars, encVars, wkVars, spkVars, mjVars, frVars,
                mixVars, crVars, prVars, iVars, lateVars>>

\* A size test that lets every frame through.
DimsMatch_Always(fw, fh, w, h) == TRUE

\* The negation of `fw != w || fh != h`.
DimsMatch(fw, fh, w, h) == ~(fw # w \/ fh # h)

\* A cadence counted from the first frame: 1, 61, 121, ...
IdrDue_FromFirst(count) == count % IDR_INTERVAL = 1

\* `frame_count % IDR_INTERVAL == 0`, on the count already incremented.
IdrDue(count) == count % IDR_INTERVAL = 0

\* The first frame arrives: its size becomes the encoder's, the encoder is
\* built (`built` is false when Encoder::with_api_config fails) and the
\* frame is kept as `pending`.
VideoEncFirst(d, built) ==
    /\ HTurn
    /\ hPc = "first"
    /\ encW' = Even(d[1])
    /\ encH' = Even(d[2])
    /\ IF built THEN hPc' = "loop" /\ pending' = <<d>>
       ELSE hPc' = "done" /\ pending' = <<>>
    /\ UNCHANGED <<frame_count, forcedAt, hLast, hDropped>>

\* frame_rx.recv() returns None, before or after the first frame.
VideoEncClosed ==
    /\ HTurn
    /\ hPc \in {"first", "loop"}
    /\ pending = <<>>
    /\ hPc' = "done"
    /\ UNCHANGED <<encW, encH, pending, frame_count, forcedAt, hLast, hDropped>>

\* One turn of the encode loop on the pending frame, else on the received
\* frame d: `stop` is the flag as loaded, `due` says the preview interval
\* has elapsed.
VideoEncFrame(d, stop, due) ==
    /\ HTurn
    /\ hPc = "loop"
    /\ UNCHANGED <<encW, encH>>
    /\ pending' = <<>>
    /\ LET f == IF pending # <<>> THEN pending[1] ELSE d
           fw == Even(f[1])
           fh == Even(f[2])
       IN  IF stop
           THEN /\ hPc' = "done"
                /\ UNCHANGED <<frame_count, forcedAt, hLast, hDropped>>
           ELSE IF ~DimsMatch(fw, fh, encW, encH)
           THEN /\ hLast' = Handled(<<fw, fh>>, FALSE, FALSE, FALSE, FALSE)
                /\ hDropped' = TRUE
                /\ UNCHANGED <<hPc, frame_count, forcedAt>>
           ELSE /\ frame_count < MaxEncoded
                /\ frame_count' = frame_count + 1
                /\ forcedAt' = IF IdrDue(frame_count') THEN forcedAt \cup {frame_count'}
                               ELSE forcedAt
                /\ hLast' = Handled(<<fw, fh>>, due, TRUE, TRUE, IdrDue(frame_count'))
                /\ UNCHANGED <<hPc, hDropped>>

NextH264 ==
    \/ \E d \in FrameSizes, built \in BOOLEAN : VideoEncFirst(d, built)
    \/ VideoEncClosed
    \/ \E d \in FrameSizes, stop \in BOOLEAN, due \in BOOLEAN : VideoEncFrame(d, stop, due)

InitH264 ==
    /\ driven = "screen"
    /\ ScreenInit /\ VoiceInit /\ EncIdle /\ WorkersIdle
    /\ SpeakInit /\ MjInit /\ DataIdle

SpecH264 == InitH264 /\ [][NextH264]_vars

\* The encoded frames, numbered from 1, that are IDR keyframes for sure:
\* the first frame a new encoder encodes, and every frame encoded right
\* after force_intra_frame.
Keyframes == (IF frame_count >= 1 THEN {1} ELSE {}) \cup forcedAt

\* C27: of 180 same-sized frames at least 3 are IDR keyframes, and the
\* keyframes come every 60 encoded frames counted from the first: frames 1,
\* 61, 121.
C27_IdrAtFirstAnd61And121 ==
    /\ frame_count = MaxEncoded => Cardinality(Keyframes) >= 3
    /\ \A n \in 1..frame_count : (n % IDR_INTERVAL = 1) => n \in Keyframes

\* C27 as the code has it: of 180 same-sized frames at least 3 are IDR
\* keyframes; frame 1 is one as the first frame of the encoder, and
\* force_intra_frame is called for exactly the encoded frames whose number,
\* counted from 1, is a multiple of 60: frames 60, 120, 180.
C27_IdrAtFirstAndEvery60th ==
    /\ frame_count = MaxEncoded => Cardinality(Keyframes) >= 3
    /\ forcedAt = { n \in 1..frame_count : n % IDR_INTERVAL = 0 }
    /\ hLast.forced => (hLast.encoded /\ frame_count \in forcedAt)

\* 180 frames were encoded, some frame of another size was dropped on the
\* way, and the keyframes are frames 1, 60, 120 and 180.
C27_Witness ==
    /\ frame_count = 180
    /\ hDropped
    /\ Keyframes = {1, 60, 120, 180}

C29_Inv ==
    /\ hLast.encoded => (hLast.w = encW /\ hLast.h = encH /\ hLast.converted)
    /\ (hLast.previewed \/ hLast.converted \/ hLast.forced) => hLast.encoded
    /\ hPc = "loop" => (encW > 0 /\ encH > 0)

C29_Step ==
    /\ (hPc = "first" /\ hPc' = "loop") =>
           (pending' # <<>> /\ encW' = Even(pending'[1][1]) /\ encH' = Even(pending'[1][2]))
    /\ (hPc = "loop") => (encW' = encW /\ encH' = encH)
    /\ (hLast'.w # encW \/ hLast'.h # encH) =>
           (frame_count' = frame_count /\ forcedAt' = forcedAt)
    /\ (hLast' # hLast /\ (hLast'.w # encW \/ hLast'.h # encH)) =>
           (~hLast'.previewed /\ ~hLast'.converted /\ ~hLast'.encoded)

\* C29: the encoder's width and height are those of the first frame, rounded
\* down to even, and never change; a later frame whose rounded size differs
\* is dropped without preview, conversion or encoding and without advancing
\* frame_count; so every frame that is encoded has the encoder's size.
C29_EncoderSizeFixed == []C29_Inv /\ [][C29_Step]_vars

\* A 4x2 frame was dropped by a 2x2 encoder between encoded frames.
C29_Witness ==
    /\ encW = 2 /\ encH = 2
    /\ hLast = Handled(<<4, 2>>, FALSE, FALSE, FALSE, FALSE)
    /\ hDropped
    /\ frame_count = 59

(***************************************************************************)
(* bgra_to_i420 (screen/capture.rs; screen/encoder.rs has the same text):  *)
(* fixed-point BT.601 conversion of a BGRA buffer into the I420 planes.    *)
(* Indices are the byte offsets of the code; the result is the returned    *)
(* vector as a sequence, element k + 1 of it being yuv[k].                 *)
(***************************************************************************)
ITurn ==
    UNCHANGED <<driven, screenVars, voiceVars, encVars, wkVars, spkVars, mjVars, frVars,
                mixVars, crVars, prVars, hVars, lateVars>>

\* bgra[k]
BgraByte(img, k) ==
    LET c == IF k \div 4 = img.spot THEN img.ink ELSE img.fill
    IN  IF k % 4 = 3 THEN 255 ELSE c[(k % 4) + 1]

\* `x >> 8` and `x >> 2` on i32 (arithmetic shifts), and `as u8`.
Shr(x, n) == x \div (2 ^ n)
AsU8(x) == x % 256

\* Full-range luma, without the offset of 16.
Luma_FullRange(r, g, b) == AsU8(Shr(77 * r + 150 * g + 29 * b + 128, 8))

Luma(r, g, b) == AsU8(Shr(66 * r + 129 * g + 25 * b + 128, 8) + 16)
ChromaU(r, g, b) == AsU8(Shr(-38 * r - 74 * g + 112 * b + 128, 8) + 128)
ChromaV(r, g, b) == AsU8(Shr(112 * r - 94 * g - 18 * b + 128, 8) + 128)

\* y_plane[i]
YSample(img, i) ==
    LET px == i * 4
    IN  Luma(BgraByte(img, px + 2), BgraByte(img, px + 1), BgraByte(img, px))

\* The sum of byte `ch` of the 2x2 block of chroma sample (row, col).
BlockSum(img, row, col, ch) ==
    LET px(dy, dx) == ((row * 2 + dy) * img.w + (col * 2 + dx)) * 4
    IN  BgraByte(img, px(0, 0) + ch) + BgraByte(img, px(0, 1) + ch)
        + BgraByte(img, px(1, 0) + ch) + BgraByte(img, px(1, 1) + ch)

\* u_plane[i] and v_plane[i]
USample(img, i) ==
    LET uv_width == img.w \div 2
        row == i \div uv_width
        col == i % uv_width
    IN  ChromaU(Shr(BlockSum(img, row, col, 2), 2), Shr(BlockSum(img, row, col, 1), 2),
                Shr(BlockSum(img, row, col, 0), 2))

VSample(img, i) ==
    LET uv_width == img.w \div 2
        row == i \div uv_width
        col == i % uv_width
    IN  ChromaV(Shr(BlockSum(img, row, col, 2), 2), Shr(BlockSum(img, row, col, 1), 2),
                Shr(BlockSum(img, row, col, 0), 2))

\* bgra_to_i420(bgra, width, height)
bgra_to_i420(img) ==
    LET y_size == img.w * img.h
        uv_size == (img.w \div 2) * (img.h \div 2)
    IN  [k \in 1..(y_size + uv_size * 2) |->
            IF k <= y_size THEN YSample(img, k - 1)
            ELSE IF k <= y_size + uv_size THEN USample(img, k - 1 - y_size)
            ELSE VSample(img, k - 1 - y_size - uv_size)]

Convert ==
    /\ ITurn
    /\ iPc = "in"
    /\ iOut' = bgra_to_i420(iImg)
    /\ iPc' = "done"
    /\ UNCHANGED iImg

\* The frame is handed on and the next one is taken.
ConvertNext ==
    /\ ITurn
    /\ iPc = "done"
    /\ iOut' = <<>>
    /\ iPc' = "in"
    /\ \E w \in EvenDims, h \in EvenDims :
         \E fill \in Levels \X Levels \X Levels, spot \in {-1, 0, w * h - 1} :
            iImg' = Bgra(w, h, fill, spot, <<255, 255, 255>>)

NextI420 == Convert \/ ConvertNext

InitI420 ==
    /\ driven = "screen"
    /\ ScreenInit /\ VoiceInit /\ EncIdle /\ WorkersIdle
    /\ SpeakInit /\ MjInit /\ FramesInit /\ MixInit /\ CropIdle /\ ProcessInit /\ VideoEncInit
    /\ LateIdle
    /\ \E w \in EvenDims, h \in EvenDims :
         \E fill \in Levels \X Levels \X Levels, spot \in {-1, 0, w * h - 1} :
            iImg = Bgra(w, h, fill, spot, <<255, 255, 255>>)
    /\ iPc = "in"
    /\ iOut = <<>>

SpecI420 == InitI420 /\ [][NextI420]_vars

\* The buffer is of one colour <<b, g, r>>.
Solid(img, c) == img.spot = -1 /\ img.fill = c

\* out is a Y plane of w*h samples y, then a U plane of w*h/4 samples u,
\* then a V plane of w*h/4 samples v.
Planes(out, w, h, y, u, v) ==
    /\ Len(out) = w * h + (w * h) \div 4 + (w * h) \div 4
    /\ \A k \in 1..Len(out) :
           out[k] = IF k <= w * h THEN y
                    ELSE IF k <= w * h + (w * h) \div 4 THEN u
                    ELSE v

\* C28: converting a buffer of any even width and height whose pixels all
\* have R = G = B = 128 gives w*h Y samples equal to 126, then w*h/4 U
\* samples and w*h/4 V samples equal to 128.  (The order of the U and V
\* planes shows on a solid blue buffer: Y 41, then U 240, then V 110.)
C28_GreyToI420 ==
    iPc = "done" =>
        /\ Solid(iImg, <<128, 128, 128>>) => Planes(iOut, iImg.w, iImg.h, 126, 128, 128)
        /\ Solid(iImg, <<255, 0, 0>>) => Planes(iOut, iImg.w, iImg.h, 41, 240, 110)

\* A 4x6 buffer of grey 128 has been converted into 24 + 6 + 6 samples.
C28_Witness ==
    /\ iPc = "done"
    /\ Solid(iImg, <<128, 128, 128>>) /\ iImg.w = 4 /\ iImg.h = 6
    /\ Len(iOut) = 36 /\ iOut[1] = 126 /\ iOut[24] = 126 /\ iOut[25] = 128 /\ iOut[36] = 128

C38_Inv ==
    popLog \o mixRing = pushedLog

C38_Step ==
    (cbPc = "fill" /\ cbDeaf) =>
        /\ Len(mixRing') >= Len(mixRing)
        /\ popLog' = popLog
        /\ \A k \in 1..Len(mixRing) : mixRing'[k] = mixRing[k]
        /\ Len(data') = Len(data) + 1 => data'[Len(data')] = 0

\* C38: a callback that read the deafen flag as set pops nothing: while it
\* runs the ring never gets shorter and what it held stays at its front, in
\* order; the samples played are always the oldest ones pushed and not yet
\* played, so what was buffered while deafened is played first afterwards.
C38_DeafenedPopsNothing == []C38_Inv /\ [][C38_Step]_vars

\* After a callback that played a sample, a deafened callback has filled
\* its buffer with zeros while a pushed sample stayed in the ring.
C38_Witness ==
    /\ cbPc = "fill" /\ cbDeaf
    /\ Len(data) = CbLen /\ \A k \in 1..CbLen : data[k] = 0
    /\ mixRing # <<>>
    /\ popLog # <<>>

(***************************************************************************)
(* The pixel format of the screen stream (screen/capture.rs): the stream   *)
(* offers BGRA, RGBA, BGRx and RGBx; param_changed sees the finalized      *)
(* format; the process callback tags each frame; the encode worker picks   *)
(* the converter by the tag.  A frame carries, beside its tag, the format  *)
(* its bytes really have.                                                  *)
(***************************************************************************)
earlyVars == <<driven, screenVars, voiceVars, encVars, wkVars, spkVars, mjVars, frVars,
               mixVars, crVars, prVars, hVars, iVars>>

FmtTurn == UNCHANGED <<earlyVars, audVars, capVars, rtVars, evVars, outVars, hsVars, rsVars, sgVars>>

\* param_changed with the finalized format: content_w and content_h are
\* taken from it, and nothing else of CaptureState is written.
FormatFinalized(fmt) ==
    /\ FmtTurn
    /\ negotiated # fmt
    /\ negotiated' = fmt
    /\ UNCHANGED <<is_bgra, fmtQ, fmtConv>>

\* The process callback builds FrameData { is_bgra: state.is_bgra, .. } from
\* a buffer in the negotiated format and try_sends it.
FormatFrame ==
    /\ FmtTurn
    /\ negotiated # "none"
    /\ fmtQ' = IF Len(fmtQ) < ChanCap
               THEN Append(fmtQ, [is_bgra |-> is_bgra, format |-> negotiated])
               ELSE fmtQ
    /\ UNCHANGED <<negotiated, is_bgra, fmtConv>>

\* The encode worker takes a frame: `if frame.is_bgra { bgra_to_i420 } else
\* { rgba_to_i420 }`.
FormatConvert ==
    /\ FmtTurn
    /\ fmtQ # <<>>
    /\ LET f == Head(fmtQ)
       IN  fmtConv' = <<[is_bgra |-> f.is_bgra, format |-> f.format,
                         converter |-> IF f.is_bgra THEN "bgra_to_i420"
                                       ELSE "rgba_to_i420"]>>
    /\ fmtQ' = Tail(fmtQ)
    /\ UNCHANGED <<negotiated, is_bgra>>

NextFormat ==
    \/ \E fmt \in VideoFormats : FormatFinalized(fmt)
    \/ FormatFrame
    \/ FormatConvert

InitFormat ==
    /\ driven = "screen"
    /\ ScreenInit /\ VoiceInit /\ EncIdle /\ WorkersIdle
    /\ SpeakInit /\ MjInit /\ DataIdle

SpecFormat == InitFormat /\ [][NextFormat]_vars

\* The byte order of a raw format is blue first.
BlueFirst(fmt) == fmt \in {"BGRA", "BGRx"}

\* C31: every frame is tagged BGRA exactly when the format negotiated for
\* its bytes is BGRA or BGRx, and is converted by bgra_to_i420 exactly then,
\* by rgba_to_i420 when the format is RGBA or RGBx.
C31_TagMatchesNegotiatedFormat ==
    /\ \A i \in 1..Len(fmtQ) : fmtQ[i].is_bgra <=> BlueFirst(fmtQ[i].format)
    /\ fmtConv # <<>> =>
           /\ fmtConv[1].is_bgra <=> BlueFirst(fmtConv[1].format)
           /\ (fmtConv[1].converter = "bgra_to_i420") <=> BlueFirst(fmtConv[1].format)

(***************************************************************************)
(* The format of the screen-audio stream (screen/capture.rs): the stream   *)
(* offers F32LE at 48000 Hz, 2 channels; param_changed stores the rate and *)
(* channel count PipeWire finalized into two atomics; the encode thread,   *)
(* spawned before the main loop runs, sleeps 100 ms and loads them once.   *)
(***************************************************************************)
AudTurn == UNCHANGED <<earlyVars, fmtVars, capVars, rtVars, evVars, outVars, hsVars, rsVars, sgVars>>

OPUS_SAMPLE_RATE == 48000

AudioRates == {44100, 48000, 96000}

AudioChannels == {1, 2, 6}

\* The frame length with the division rounded down.
DeviceFrameSamples_Floor(r, c) == ((OPUS_FRAME_SAMPLES * r) \div OPUS_SAMPLE_RATE) * c

\* Samples of one 20 ms frame at rate r with c channels, as the loop
\* computes it: ceil(960 * r / 48000) * c when resampling, 960 * c when not.
DeviceFrameSamples(r, c) ==
    IF r # OPUS_SAMPLE_RATE
    THEN ((OPUS_FRAME_SAMPLES * r + OPUS_SAMPLE_RATE - 1) \div OPUS_SAMPLE_RATE) * c
    ELSE OPUS_FRAME_SAMPLES * c

\* param_changed with the finalized format, up to the store of AudioRate.
AudioParamChanged(r, c) ==
    /\ AudTurn
    /\ aStream.rate = 0
    /\ aStream' = [rate |-> r, channels |-> c]
    /\ negotiated_rate' = r
    /\ aCb' = "rate_stored"
    /\ UNCHANGED <<negotiated_channels, aPc, device_rate, device_channels, needs_resample,
                   device_frame_samples, aUsed>>

\* param_changed: the store of AudioChannels.
AudioParamChannels ==
    /\ AudTurn
    /\ aCb = "rate_stored"
    /\ negotiated_channels' = aStream.channels
    /\ aCb' = "idle"
    /\ UNCHANGED <<aStream, negotiated_rate, aPc, device_rate, device_channels,
                   needs_resample, device_frame_samples, aUsed>>

\* opus_encode_loop: the runtime is built and the 100 ms sleep returns.
OpusLoopSlept ==
    /\ AudTurn
    /\ aPc = "spawned"
    /\ aPc' = "waited"
    /\ UNCHANGED <<aStream, aCb, negotiated_rate, negotiated_channels, device_rate,
                   device_channels, needs_resample, device_frame_samples, aUsed>>

\* let device_rate = negotiated_rate.load(Relaxed)
OpusLoadRate ==
    /\ AudTurn
    /\ aPc = "waited"
    /\ device_rate' = negotiated_rate
    /\ aPc' = "rate_loaded"
    /\ UNCHANGED <<aStream, aCb, negotiated_rate, negotiated_channels, device_channels,
                   needs_resample, device_frame_samples, aUsed>>

\* let device_channels = negotiated_channels.load(Relaxed), then
\* needs_resample and device_frame_samples from the two locals.
OpusLoadChannels ==
    /\ AudTurn
    /\ aPc = "rate_loaded"
    /\ device_channels' = negotiated_channels
    /\ needs_resample' = (device_rate # OPUS_SAMPLE_RATE)
    /\ device_frame_samples' = DeviceFrameSamples(device_rate, negotiated_channels)
    /\ aPc' = "loop"
    /\ UNCHANGED <<aStream, aCb, negotiated_rate, negotiated_channels, device_rate, aUsed>>

\* One frame drained from pcm_buf: the process callback has pushed samples
\* in the finalized format, the loop frames and converts them by its locals.
OpusEncodeFrame ==
    /\ AudTurn
    /\ aPc = "loop"
    /\ aStream.rate # 0 /\ aCb = "idle"
    /\ aUsed' = <<[rate |-> device_rate, channels |-> device_channels,
                   resample |-> needs_resample, frame_samples |-> device_frame_samples,
                   stream |-> aStream]>>
    /\ UNCHANGED <<aStream, aCb, negotiated_rate, negotiated_channels, aPc, device_rate,
                   device_channels, needs_resample, device_frame_samples>>

NextAudioFormat ==
    \/ \E r \in AudioRates, c \in AudioChannels : AudioParamChanged(r, c)
    \/ AudioParamChannels
    \/ OpusLoopSlept
    \/ OpusLoadRate
    \/ OpusLoadChannels
    \/ OpusEncodeFrame

InitAudioFormat ==
    /\ driven = "screen"
    /\ ScreenInit /\ VoiceInit /\ EncIdle /\ WorkersIdle
    /\ SpeakInit /\ MjInit /\ DataIdle

SpecAudioFormat == InitAudioFormat /\ [][NextAudioFormat]_vars

\* C32: every frame the screen-audio encode loop drains is framed, made
\* stereo and resampled or not by the rate and channel count PipeWire
\* finalized for the stream, however the format callback and the start of
\* the loop interleave.
C32_LoopUsesNegotiatedFormat ==
    aUsed # <<>> =>
        LET u == aUsed[1]
        IN  /\ u.rate = u.stream.rate
            /\ u.channels = u.stream.channels
            /\ u.resample = (u.stream.rate # OPUS_SAMPLE_RATE)
            /\ u.frame_samples = DeviceFrameSamples(u.stream.rate, u.stream.channels)

(***************************************************************************)
(* Framing in the voice encode task (voice/audio_capture.rs): the input    *)
(* callback pushes samples into the ring, the task polls every 5 ms, pops  *)
(* what the ring holds into pcm_buf and drains pcm_buf frame by frame.     *)
(* The ring holds at least 8192 samples; a behaviour pushes fewer.         *)
(***************************************************************************)
CapTurn == UNCHANGED <<earlyVars, fmtVars, audVars, rtVars, evVars, outVars, hsVars, rsVars, sgVars>>

\* Samples a behaviour pushes.
MaxSamples == 2000

CaptureRates == {8000, 11025, 48000}

CaptureChannels == {1, 2}

\* Lengths of the slices cpal hands the input callback.
BlockSizes == {256, 441}

\* AudioCapture::start: the rate and channel count of the device's default
\* input config, the ring, the stream, the encode task.
CaptureStart(r, c) ==
    /\ CapTurn
    /\ capPc = "off"
    /\ capRate' = r /\ capCh' = c
    /\ capPc' = "sleep"
    /\ UNCHANGED <<capRing, capPcm, capFramed, capLens, capNext>>

\* The input callback: try_push of every sample of `data`.
CaptureCallback(n) ==
    /\ CapTurn
    /\ capPc # "off"
    /\ capNext + n <= MaxSamples
    /\ capRing' = capRing \o [k \in 1..n |-> capNext + k]
    /\ capNext' = capNext + n
    /\ UNCHANGED <<capRate, capCh, capPcm, capFramed, capLens, capPc>>

\* The sleep returns: `while consumer.occupied_len() > 0` pops the ring,
\* oldest sample first, onto the end of pcm_buf.
CapturePoll ==
    /\ CapTurn
    /\ capPc = "sleep"
    /\ capPcm' = capPcm \o capRing
    /\ capRing' = <<>>
    /\ capPc' = "framing"
    /\ UNCHANGED <<capRate, capCh, capFramed, capLens, capNext>>

\* `while pcm_buf.len() >= device_frame_samples`: drain(..device_frame_samples)
\* is the frame handed to the stereo conversion.
CaptureFrame ==
    /\ CapTurn
    /\ capPc = "framing"
    /\ LET n == DeviceFrameSamples(capRate, capCh)
       IN  /\ Len(capPcm) >= n
           /\ capFramed' = capFramed \o SubSeq(capPcm, 1, n)
           /\ capLens' = Append(capLens, n)
           /\ capPcm' = SubSeq(capPcm, n + 1, Len(capPcm))
    /\ UNCHANGED <<capRate, capCh, capRing, capPc, capNext>>

\* pcm_buf is shorter than a frame: back to the sleep.
CapturePollEnd ==
    /\ CapTurn
    /\ capPc = "framing"
    /\ Len(capPcm) < DeviceFrameSamples(capRate, capCh)
    /\ capPc' = "sleep"
    /\ UNCHANGED <<capRate, capCh, capRing, capPcm, capFramed, capLens, capNext>>

NextCapture ==
    \/ \E r \in CaptureRates, c \in CaptureChannels : CaptureStart(r, c)
    \/ \E n \in BlockSizes : CaptureCallback(n)
    \/ CapturePoll
    \/ CaptureFrame
    \/ CapturePollEnd

InitCapture ==
    /\ driven = "voice"
    /\ ScreenInit /\ VoiceInit /\ EncIdle /\ WorkersIdle
    /\ SpeakInit /\ MjInit /\ DataIdle

SpecCapture == InitCapture /\ [][NextCapture]_vars

\* ceil(a / b) for positive b.
CeilDiv(a, b) == (a + b - 1) \div b

RtTurn == UNCHANGED <<earlyVars, fmtVars, audVars, capVars, evVars, outVars, hsVars, rsVars, sgVars>>

\* Packets a behaviour reads from the track.
MaxPackets == 4

PacketKinds == {"ok", "empty", "bad"}

ReadErrors == {"closed", "other"}

\* track.read returns a packet.
TrackRead(kind) ==
    /\ RtTurn
    /\ rtPc = "read"
    /\ Len(rtLog) < MaxPackets
    /\ rtLog' = Append(rtLog, kind)
    /\ rtPc' = "payload"
    /\ UNCHANGED <<rtErr, rtPushed>>

\* track.read returns an error: `break`, whether or not it says "closed".
TrackReadFailed(e) ==
    /\ RtTurn
    /\ rtPc = "read"
    /\ rtErr' = e
    /\ rtPc' = "ended"
    /\ UNCHANGED <<rtLog, rtPushed>>

\* `if packet.payload.is_empty() { continue; }`
TrackPayloadEmpty ==
    /\ RtTurn
    /\ rtPc = "payload"
    /\ rtLog[Len(rtLog)] = "empty"
    /\ rtPc' = "read"
    /\ UNCHANGED <<rtLog, rtErr, rtPushed>>

\* The other way a decode error could be taken: leave the loop.
TrackDecodeError_Break ==
    /\ RtTurn
    /\ rtPc = "payload"
    /\ rtLog[Len(rtLog)] = "bad"
    /\ rtPc' = "ended"
    /\ UNCHANGED <<rtLog, rtErr, rtPushed>>

\* decoder.decode returns Err: logged, `continue`.
TrackDecodeError ==
    /\ RtTurn
    /\ rtPc = "payload"
    /\ rtLog[Len(rtLog)] = "bad"
    /\ rtPc' = "read"
    /\ UNCHANGED <<rtLog, rtErr, rtPushed>>

\* decoder.decode returns Ok(n).
TrackDecoded ==
    /\ RtTurn
    /\ rtPc = "payload"
    /\ rtLog[Len(rtLog)] = "ok"
    /\ rtPc' = "decoded"
    /\ UNCHANGED <<rtLog, rtErr, rtPushed>>

\* Conversion, resampling, channel adaptation and the push of the samples
\* under the mix_producer lock; then the next read.
TrackPush ==
    /\ RtTurn
    /\ rtPc = "decoded"
    /\ rtPushed' = Append(rtPushed, Len(rtLog))
    /\ rtPc' = "read"
    /\ UNCHANGED <<rtLog, rtErr>>

NextRemoteTrack ==
    \/ \E kind \in PacketKinds : TrackRead(kind)
    \/ \E e \in ReadErrors : TrackReadFailed(e)
    \/ TrackPayloadEmpty
    \/ TrackDecodeError
    \/ TrackDecoded
    \/ TrackPush

InitRemoteTrack ==
    /\ driven = "voice"
    /\ ScreenInit /\ VoiceInit /\ EncIdle /\ WorkersIdle
    /\ SpeakInit /\ MjInit /\ DataIdle

SpecRemoteTrack == InitRemoteTrack /\ [][NextRemoteTrack]_vars

\* The places of the "ok" packets among the first n read, in order.
RECURSIVE OkPackets(_, _)
OkPackets(log, n) ==
    IF n = 0 THEN <<>>
    ELSE IF log[n] = "ok" THEN Append(OkPackets(log, n - 1), n)
    ELSE OkPackets(log, n - 1)

C34_Inv ==
    /\ rtErr = "closed" => rtPc = "ended"
    /\ rtPc = "read" => rtPushed = OkPackets(rtLog, Len(rtLog))
    /\ rtPc = "ended" => rtErr # "none"

C34_Step ==
    /\ rtPc = "ended" => rtPc' = "ended" /\ rtPushed' = rtPushed /\ rtLog' = rtLog
    /\ rtPc = "payload" /\ rtLog[Len(rtLog)] \in {"empty", "bad"} /\ rtPc' # rtPc =>
           rtPc' = "read" /\ rtPushed' = rtPushed
    /\ rtPc = "read" /\ rtErr' = "closed" => rtPc' = "ended"

\* C34: a "closed" read error ends the decode task, and an ended task reads
\* and pushes nothing more; a packet with an empty payload or one the
\* decoder rejects is skipped alone: the task goes back to reading, and the
\* packets pushed are exactly the decodable ones read, in order.
C34_DecodeTaskErrors == []C34_Inv /\ [][C34_Step]_vars

\* An empty packet and a rejected one were skipped, the packets around them
\* were pushed, and then the track closed.
C34_Witness ==
    /\ rtLog = <<"ok", "empty", "bad", "ok">>
    /\ rtPushed = <<1, 4>>
    /\ rtErr = "closed" /\ rtPc = "ended"

(***************************************************************************)
(* The way of a Speaking transition to the UI (voice/mod.rs,               *)
(* voice/audio_capture.rs): every AudioCapture::start makes a new          *)
(* unbounded channel, gives the sender to the encode task it spawns and    *)
(* keeps the receiver in capture.event_rx; ensure_peer takes the receiver  *)
(* and moves it into run_event_loop.                                       *)
(***************************************************************************)
EvTurn == UNCHANGED <<earlyVars, fmtVars, audVars, capVars, rtVars, outVars, hsVars, rsVars, sgVars>>

\* Speaking transitions one encode task sends.
MaxEvents == 3

\* ensure_peer: capture.start, capture.event_rx.take(), the event loop
\* spawned with the receiver taken.
EventsEnsurePeer ==
    /\ EvTurn
    /\ evGen = 0
    /\ evGen' = 1
    /\ evLoopRx' = 1
    /\ UNCHANGED <<evChan, evSent, evUi>>

\* voice_set_input_device with a capture running: capture.stop() aborts the
\* encode task and clears event_rx, capture.start() makes a new channel and
\* a new task; the event loop is not touched.
EventsSetInputDevice ==
    /\ EvTurn
    /\ evGen >= 1 /\ evGen < MaxGens
    /\ evGen' = evGen + 1
    /\ UNCHANGED <<evLoopRx, evChan, evSent, evUi>>

\* The running encode task: speaking_detector.process returns a transition
\* and event_tx.send(Speaking(..)) queues it.  A task's detector starts
\* silent, so its transitions are true, false, true, ...
EventsSpeaking ==
    /\ EvTurn
    /\ evGen >= 1
    /\ evSent[evGen] < MaxEvents
    /\ evChan' = [evChan EXCEPT ![evGen] = Append(@, evSent[evGen] % 2 = 0)]
    /\ evSent' = [evSent EXCEPT ![evGen] = @ + 1]
    /\ UNCHANGED <<evGen, evLoopRx, evUi>>

\* run_event_loop: capture_rx.recv() returns Speaking(speaking) and
\* voice:speaking is emitted.
EventsForward ==
    /\ EvTurn
    /\ evLoopRx # 0
    /\ evChan[evLoopRx] # <<>>
    /\ evUi' = Append(evUi, [gen |-> evLoopRx, speaking |-> Head(evChan[evLoopRx])])
    /\ evChan' = [evChan EXCEPT ![evLoopRx] = Tail(@)]
    /\ UNCHANGED <<evGen, evLoopRx, evSent>>

NextEvents ==
    \/ EventsEnsurePeer
    \/ EventsSetInputDevice
    \/ EventsSpeaking
    \/ EventsForward

InitEvents ==
    /\ driven = "voice"
    /\ ScreenInit /\ VoiceInit /\ EncIdle /\ WorkersIdle
    /\ SpeakInit /\ MjInit /\ DataIdle

\* The event loop is a spawned task: the runtime polls it when its receiver
\* holds a message.
FairEvents == WF_vars(EventsForward)

SpecEvents == InitEvents /\ [][NextEvents]_vars /\ FairEvents

\* The voice:speaking events emitted for the transitions of start g.
RECURSIVE Forwarded(_, _)
Forwarded(ui, g) ==
    IF ui = <<>> THEN <<>>
    ELSE IF Head(ui).gen = g THEN <<Head(ui).speaking>> \o Forwarded(Tail(ui), g)
    ELSE Forwarded(Tail(ui), g)

\* C35: every Speaking transition an encode task sends is eventually
\* emitted to the UI as voice:speaking, in the order sent, the transitions
\* of a capture restarted by voice_set_input_device included.
C35_SpeakingReachesUi ==
    /\ [](\A g \in 1..MaxGens :
             \A i \in 1..Len(Forwarded(evUi, g)) : Forwarded(evUi, g)[i] = (i % 2 = 1))
    /\ \A g \in 1..MaxGens : \A i \in 1..MaxEvents :
           (evSent[g] >= i) ~> (Len(Forwarded(evUi, g)) >= i)

(***************************************************************************)
(* The output format the decode tasks convert to (voice/mod.rs,            *)
(* voice/audio_playback.rs): AudioPlayback::start reads the rate and       *)
(* channel count of the device it opens; ensure_peer copies them into      *)
(* run_event_loop, which passes them to every decode task it spawns; all   *)
(* tasks push into the producer the shared mix_producer holds.             *)
(***************************************************************************)
OutTurn == UNCHANGED <<earlyVars, fmtVars, audVars, capVars, rtVars, evVars, hsVars, rsVars, sgVars>>

\* Decode tasks a behaviour spawns.
MaxTasks == 2

\* Default output configs of the devices of the host.
OutputConfigs ==
    {[rate |-> 48000, channels |-> 2], [rate |-> 44100, channels |-> 2],
     [rate |-> 48000, channels |-> 1], [rate |-> 96000, channels |-> 6]}

\* ensure_peer: start_playback opens the device, then device_rate and
\* device_channels are copied for run_event_loop.
OutputEnsurePeer(cfg) ==
    /\ OutTurn
    /\ outDev = NoDevice
    /\ outDev' = cfg
    /\ outLoop' = cfg
    /\ UNCHANGED <<outTasks, outPush>>

\* voice_set_output_device with playback running: playback.stop(), then
\* playback.start() on the new device: new rate, channels, ring, producer.
OutputSetDevice(cfg) ==
    /\ OutTurn
    /\ outDev # NoDevice /\ cfg # outDev
    /\ outDev' = cfg
    /\ UNCHANGED <<outLoop, outTasks, outPush>>

\* run_event_loop receives RemoteTrack: spawn_decode_task(track,
\* mix_producer, device_rate, device_channels) with the loop's copies.
OutputRemoteTrack ==
    /\ OutTurn
    /\ outLoop # NoDevice
    /\ Len(outTasks) < MaxTasks
    /\ outTasks' = Append(outTasks, outLoop)
    /\ UNCHANGED <<outDev, outLoop, outPush>>

\* Decode task t: the decoded 48 kHz stereo samples are resampled to its
\* device_rate, adapted to its device_channels and pushed into the producer
\* mix_producer holds now.
OutputPush(t) ==
    /\ OutTurn
    /\ t \in 1..Len(outTasks)
    /\ outPush' = <<[task |-> t, samples |-> outTasks[t], device |-> outDev]>>
    /\ UNCHANGED <<outDev, outLoop, outTasks>>

NextOutput ==
    \/ \E cfg \in OutputConfigs : OutputEnsurePeer(cfg)
    \/ \E cfg \in OutputConfigs : OutputSetDevice(cfg)
    \/ OutputRemoteTrack
    \/ \E t \in 1..MaxTasks : OutputPush(t)

InitOutput ==
    /\ driven = "voice"
    /\ ScreenInit /\ VoiceInit /\ EncIdle /\ WorkersIdle
    /\ SpeakInit /\ MjInit /\ DataIdle

SpecOutput == InitOutput /\ [][NextOutput]_vars

\* C36: the samples a decode task pushes into the playback ring have the
\* rate and the channel count of the output device open at the push, also
\* when the task was spawned after voice_set_output_device changed the
\* device.
C36_PushedAtDeviceFormat ==
    outPush # <<>> => outPush[1].samples = outPush[1].device

(***************************************************************************)
(* The H.264 worker's loop step by step (screen/capture.rs, run_capture)   *)
(* against ScreenCapture::stop: the flag may be stored between any two     *)
(* steps of the worker.                                                    *)
(***************************************************************************)
HsTurn == UNCHANGED <<earlyVars, fmtVars, audVars, capVars, rtVars, evVars, outVars, rsVars, sgVars>>

\* Frames a behaviour hands the worker.
MaxStopFrames == 8

\* ScreenCapture::stop: stop_flag.store(true).
StopStore ==
    /\ HsTurn
    /\ ~hsStop
    /\ hsStop' = TRUE
    /\ UNCHANGED <<hsPc, hsFrames, hsSamples, hsPreviews>>

\* pending.take() or frame_rx.recv() returns a frame.
StopWorkerRecv ==
    /\ HsTurn
    /\ hsPc = "recv"
    /\ hsFrames < MaxStopFrames
    /\ hsFrames' = hsFrames + 1
    /\ hsPc' = "stop_test"
    /\ UNCHANGED <<hsStop, hsSamples, hsPreviews>>

\* frame_rx.recv() returns None: the capture thread has returned.
StopWorkerClosed ==
    /\ HsTurn
    /\ hsPc = "recv"
    /\ hsStop
    /\ hsPc' = "exited"
    /\ UNCHANGED <<hsStop, hsFrames, hsSamples, hsPreviews>>

\* A worker that does not look at the flag.
StopWorkerTest_Never ==
    /\ HsTurn
    /\ hsPc = "stop_test"
    /\ hsPc' = "dims"
    /\ UNCHANGED <<hsStop, hsFrames, hsSamples, hsPreviews>>

\* `if enc_stop.load(Relaxed) { break; }`
StopWorkerTest ==
    /\ HsTurn
    /\ hsPc = "stop_test"
    /\ hsPc' = IF hsStop THEN "exited" ELSE "dims"
    /\ UNCHANGED <<hsStop, hsFrames, hsSamples, hsPreviews>>

\* `if fw != w || fh != h { continue; }`
StopWorkerDims(same) ==
    /\ HsTurn
    /\ hsPc = "dims"
    /\ hsPc' = IF same THEN "preview" ELSE "recv"
    /\ UNCHANGED <<hsStop, hsFrames, hsSamples, hsPreviews>>

\* The preview: when PREVIEW_INTERVAL has elapsed and make_preview_jpeg
\* returns a JPEG, preview_tx.send_replace publishes it.
StopWorkerPreview(published) ==
    /\ HsTurn
    /\ hsPc = "preview"
    /\ hsPreviews' = IF published /\ hsStop THEN hsPreviews + 1 ELSE hsPreviews
    /\ hsPc' = "encode"
    /\ UNCHANGED <<hsStop, hsFrames, hsSamples>>

\* Conversion, encoder.encode and, when it returns a non-empty bitstream,
\* track.write_sample.
StopWorkerEncode(written) ==
    /\ HsTurn
    /\ hsPc = "encode"
    /\ hsSamples' = IF written /\ hsStop THEN hsSamples + 1 ELSE hsSamples
    /\ hsPc' = "recv"
    /\ UNCHANGED <<hsStop, hsFrames, hsPreviews>>

NextStopWorker ==
    \/ StopStore
    \/ StopWorkerRecv
    \/ StopWorkerClosed
    \/ StopWorkerTest
    \/ \E same \in BOOLEAN : StopWorkerDims(same)
    \/ \E published \in BOOLEAN : StopWorkerPreview(published)
    \/ \E written \in BOOLEAN : StopWorkerEncode(written)

InitStopWorker ==
    /\ driven = "screen"
    /\ ScreenInit /\ VoiceInit /\ EncIdle /\ WorkersIdle
    /\ SpeakInit /\ MjInit /\ DataIdle

SpecStopWorker == InitStopWorker /\ [][NextStopWorker]_vars

\* C37: after ScreenCapture::stop has set the flag the H.264 worker writes
\* at most one more sample to the video track and publishes at most one
\* more preview JPEG.
C37_AtMostOneAfterStop ==
    /\ hsSamples <= 1
    /\ hsPreviews <= 1

\* The flag was set while the worker was past its stop test: the frame in
\* hand was published and written, the next one ended the loop.
C37_Witness ==
    /\ hsStop /\ hsPc = "exited"
    /\ hsSamples = 1 /\ hsPreviews = 1
    /\ hsFrames >= 2

(***************************************************************************)
(* The length of one frame on its way to the Opus encoder, in the voice    *)
(* encode task (voice/audio_capture.rs) and in opus_encode_loop            *)
(* (screen/capture.rs), which frame, convert and resample alike; `driven`  *)
(* tells which of the two is followed.  AudioResampler::process            *)
(* (voice/resampler.rs) pads each channel to input_frames and returns what *)
(* rubato's FftFixedIn returns, taken here as ceil(input_frames * 48000 /  *)
(* R) frames per channel.                                                  *)
(***************************************************************************)
RsTurn == UNCHANGED <<earlyVars, fmtVars, audVars, capVars, rtVars, evVars, outVars, hsVars, sgVars>>

StandardRates == {8000, 11025, 16000, 22050, 32000, 44100, 48000, 88200, 96000, 192000}

DeviceChannels == {1, 2, 6}

\* input_frames, the chunk size the resampler is built with.
InputFrames(r) == CeilDiv(OPUS_FRAME_SAMPLES * r, OPUS_SAMPLE_RATE)

\* Length of to_stereo(samples, channels) for a vector of n samples.
ToStereoLen(n, channels) ==
    IF channels = 2 THEN n
    ELSE IF channels = 1 THEN n * 2
    ELSE (n \div channels) * 2

\* Length of AudioResampler::process for the rate r: two channels of
\* ceil(input_frames * 48000 / r) frames, interleaved.
ProcessLen(r) == CeilDiv(InputFrames(r) * OPUS_SAMPLE_RATE, r) * 2

\* The loop starts on a device of rate r with c channels.
ResampleStart(r, c) ==
    /\ RsTurn
    /\ rsPc = "off"
    /\ rsRate' = r /\ rsCh' = c
    /\ rsPc' = "start"
    /\ UNCHANGED rsLen

\* pcm_buf.drain(..device_frame_samples)
ResampleDrain ==
    /\ RsTurn
    /\ rsPc = "start"
    /\ rsLen' = DeviceFrameSamples(rsRate, rsCh)
    /\ rsPc' = "frame"
    /\ UNCHANGED <<rsRate, rsCh>>

\* to_stereo(&frame, device_channels)
ResampleToStereo ==
    /\ RsTurn
    /\ rsPc = "frame"
    /\ rsLen' = ToStereoLen(rsLen, rsCh)
    /\ rsPc' = "stereo"
    /\ UNCHANGED <<rsRate, rsCh>>

\* stereo_48k: the resampler's output if needs_resample, else the stereo
\* frame itself.
ResampleProcess ==
    /\ RsTurn
    /\ rsPc = "stereo"
    /\ rsLen' = IF rsRate # OPUS_SAMPLE_RATE THEN ProcessLen(rsRate) ELSE rsLen
    /\ rsPc' = "pcm"
    /\ UNCHANGED <<rsRate, rsCh>>

\* pcm_i16 has one element per element of stereo_48k;
\* encoder.encode(&pcm_i16, ..) gets it.
ResampleEncode ==
    /\ RsTurn
    /\ rsPc = "pcm"
    /\ rsPc' = "encoded"
    /\ UNCHANGED <<rsRate, rsCh, rsLen>>

NextResample ==
    \/ \E r \in StandardRates, c \in DeviceChannels : ResampleStart(r, c)
    \/ ResampleDrain
    \/ ResampleToStereo
    \/ ResampleProcess
    \/ ResampleEncode

InitResample ==
    /\ driven \in {"voice", "screen"}
    /\ ScreenInit /\ VoiceInit /\ EncIdle /\ WorkersIdle
    /\ SpeakInit /\ MjInit /\ DataIdle

SpecResample == InitResample /\ [][NextResample]_vars

\* C39: at every standard device rate the frame handed to the Opus encoder
\* by the voice and the screen-audio loop has exactly 960 stereo pairs,
\* 1920 interleaved samples.
C39_EncoderGets960Pairs ==
    rsPc = "encoded" => rsLen = 2 * 960

(***************************************************************************)
(* The signalling commands next to the engines (screen/mod.rs,             *)
(* voice/mod.rs): screen_handle_offer and screen_handle_ice beside the     *)
(* screen commands, voice_handle_ice among the voice commands.  Each holds *)
(* the engine lock from its first statement to its return.                 *)
(***************************************************************************)
SgTurn == UNCHANGED <<earlyVars, fmtVars, audVars, capVars, rtVars, evVars, outVars, hsVars, rsVars>>

SignalCommands == {"screen_handle_offer", "screen_handle_ice"}

\* The UI invokes a screen signalling command; it waits for the engine lock.
InvokeSignal(cmd) ==
    /\ SgTurn
    /\ driven = "screen"
    /\ sgPc = "idle"
    /\ sgPc' = cmd
    /\ sgRes' = "none"

\* A screen_handle_offer that does not look for the peer.
ScreenHandleOffer_Unchecked(offerOk) ==
    /\ SgTurn
    /\ driven = "screen"
    /\ sgPc = "screen_handle_offer"
    /\ sgRes' = IF offerOk THEN "ok" ELSE "err_offer"
    /\ sgPc' = "idle"

\* screen_handle_offer: engine.peer.as_ref().ok_or("no screen peer")?, then
\* peer.handle_offer.
ScreenHandleOffer(offerOk) ==
    /\ SgTurn
    /\ driven = "screen"
    /\ sgPc = "screen_handle_offer"
    /\ sgRes' = IF screen.peer = 0 THEN "err_no_peer"
                ELSE IF offerOk THEN "ok" ELSE "err_offer"
    /\ sgPc' = "idle"

\* screen_handle_ice: peer.handle_ice if there is a peer, else
\* Err("no screen peer connection").
ScreenHandleIce(iceOk) ==
    /\ SgTurn
    /\ driven = "screen"
    /\ sgPc = "screen_handle_ice"
    /\ sgRes' = IF screen.peer = 0 THEN "err_no_peer"
                ELSE IF iceOk THEN "ok" ELSE "err_ice"
    /\ sgPc' = "idle"

Init ==
    /\ driven \in {"screen", "voice"}
    /\ ScreenInit
    /\ VoiceInit
    /\ EncIdle
    /\ WorkersIdle
    /\ AuxIdle

Next ==
    \/ \E c \in Cmds : InvokeScreenStart(c)
    \/ \E c \in Cmds : ScreenStartStopOld(c)
    \/ \E c \in Cmds : PortalOk(c)
    \/ \E c \in Cmds : PortalCancel(c)
    \/ \E c \in Cmds : SetupBindFail(c)
    \/ \E c \in Cmds : SetupPeerFail(c)
    \/ \E c \in Cmds : SetupOk(c)
    \/ \E c \in Cmds : InvokeScreenStop(c)
    \/ \E c \in Cmds : ScreenStop(c)
    \/ \E k \in Setups : RunCaptureBegin(k)
    \/ \E k \in Setups : PeerCloseDone(k)
    \/ \E cmd \in VoiceCommands \ {"voice_set_input_device", "voice_set_output_device"} :
            InvokeVoice(cmd, "none")
    \/ \E cmd \in {"voice_set_input_device", "voice_set_output_device"}, d \in Devices :
            InvokeVoice(cmd, d)
    \/ \E o \in {"ok", "early", "late"} : VoiceStart(o)
    \/ VoiceStop
    \/ \E b \in BOOLEAN : VoiceOfferHavePeer(b)
    \/ \E o \in {"early", "late"} : VoiceOfferPlaybackFail(o)
    \/ VoiceOfferPeerFail
    \/ VoiceOfferCaptureFail
    \/ \E b \in BOOLEAN : VoiceOfferNewPeer(b)
    \/ \E b \in BOOLEAN : VoiceIce(b)
    \/ \E b \in BOOLEAN : VoiceSetInputDevice(b)
    \/ \E o \in {"ok", "early", "late"} : VoiceSetOutputDevice(o)
    \/ \E k \in VoicePeers : VoicePeerCloseDone(k)

Spec == Init /\ [][Next]_vars

\* The engines, driven by one screen_start or screen_stop at a time, with
\* the screen signalling commands beside them.
NextSignal ==
    \/ InvokeScreenStart(1)
    \/ ScreenStartStopOld(1)
    \/ PortalOk(1)
    \/ PortalCancel(1)
    \/ SetupBindFail(1)
    \/ SetupPeerFail(1)
    \/ SetupOk(1)
    \/ InvokeScreenStop(1)
    \/ ScreenStop(1)
    \/ \E k \in Setups : RunCaptureBegin(k)
    \/ \E k \in Setups : PeerCloseDone(k)
    \/ \E cmd \in VoiceCommands \ {"voice_set_input_device", "voice_set_output_device"} :
            InvokeVoice(cmd, "none")
    \/ \E cmd \in {"voice_set_input_device", "voice_set_output_device"}, d \in Devices :
            InvokeVoice(cmd, d)
    \/ \E o \in {"ok", "early", "late"} : VoiceStart(o)
    \/ VoiceStop
    \/ \E b \in BOOLEAN : VoiceOfferHavePeer(b)
    \/ \E o \in {"early", "late"} : VoiceOfferPlaybackFail(o)
    \/ VoiceOfferPeerFail
    \/ VoiceOfferCaptureFail
    \/ \E b \in BOOLEAN : VoiceOfferNewPeer(b)
    \/ \E b \in BOOLEAN : VoiceIce(b)
    \/ \E b \in BOOLEAN : VoiceSetInputDevice(b)
    \/ \E o \in {"ok", "early", "late"} : VoiceSetOutputDevice(o)
    \/ \E k \in VoicePeers : VoicePeerCloseDone(k)
    \/ \E cmd \in SignalCommands : InvokeSignal(cmd)
    \/ \E b \in BOOLEAN : ScreenHandleOffer(b)
    \/ \E b \in BOOLEAN : ScreenHandleIce(b)

SpecSignal == Init /\ [][NextSignal]_vars

C40_Step ==
    /\ (sgPc # "idle" /\ sgPc' = "idle" /\ screen.peer = 0) =>
           /\ sgRes' = "err_no_peer"
           /\ UNCHANGED <<screenVars, wkVars>>
    /\ (vpc.cmd = "voice_handle_ice" /\ vpc'.cmd = "idle" /\ voice.peer = 0) =>
           /\ vres' = "err_ice"
           /\ UNCHANGED <<voice, madePeer, nVPeers, vpeer, vevt, nCaptures, venc, vtrack,
                          vdec, encVars>>

\* C40: voice_handle_ice without a voice peer, and screen_handle_offer and
\* screen_handle_ice without a screen peer, return an error and change
\* nothing of their engine.
C40_NoPeerIsAnError == [][C40_Step]_vars

\* After a session was started and stopped, a screen signalling command
\* found no peer and returned the error.
C40_Witness ==
    /\ sgPc = "idle" /\ sgRes = "err_no_peer"
    /\ screen.peer = 0 /\ nSetups >= 1

\* The voice engine with its peers' remote side and its decode tasks: the
\* voice commands as in Next, the device commands naming one device.
SessionDevices == {"B"}

InitVoice ==
    /\ driven = "voice"
    /\ ScreenInit
    /\ VoiceInit
    /\ EncIdle
    /\ WorkersIdle
    /\ AuxIdle

NextVoice ==
    \/ \E cmd \in VoiceCommands \ {"voice_set_input_device", "voice_set_output_device"} :
            InvokeVoice(cmd, "none")
    \/ \E cmd \in {"voice_set_input_device", "voice_set_output_device"},
          d \in SessionDevices :
            InvokeVoice(cmd, d)
    \/ \E o \in {"ok", "early", "late"} : VoiceStart(o)
    \/ VoiceStop
    \/ \E b \in BOOLEAN : VoiceOfferHavePeer(b)
    \/ \E o \in {"early", "late"} : VoiceOfferPlaybackFail(o)
    \/ VoiceOfferPeerFail
    \/ VoiceOfferCaptureFail
    \/ \E b \in BOOLEAN : VoiceOfferNewPeer(b)
    \/ \E b \in BOOLEAN : VoiceIce(b)
    \/ \E b \in BOOLEAN : VoiceSetInputDevice(b)
    \/ \E o \in {"ok", "early", "late"} : VoiceSetOutputDevice(o)
    \/ \E k \in VoicePeers : VoicePeerCloseDone(k)
    \/ \E k \in VoicePeers : RemotePeerClosed(k)
    \/ \E k \in VoicePeers : SpawnDecode(k)
    \/ \E k \in VoicePeers : DecodeRead(k)
    \/ \E k \in VoicePeers : DecodeReadError(k)
    \/ \E k \in VoicePeers : DecodePush(k)

SpecVoice == InitVoice /\ [][NextVoice]_vars

\* Decode task k takes the step that locks mix_producer and finds a producer
\* there: its samples go into the ring of the running playback.
PushesIntoRing(k) ==
    /\ vdec[k] = "decoded"
    /\ vdec'[k] = "reading"
    /\ voice.mix_producer

\* C11: a decode task left over from a previous voice session never pushes
\* samples of the old peer's track into the playback ring of a later session:
\* whenever a decode task pushes into the ring, its peer is the peer the
\* engine holds.
C11_OldDecodeNeverPushes ==
    [][\A k \in VoicePeers : PushesIntoRing(k) => voice.peer = k]_vars

\* voice_handle_offer returns from a call that got as far as
\* peer.handle_offer: ensure_peer returned Ok.
OfferHandled ==
    /\ vpc.cmd = "voice_handle_offer"
    /\ vpc'.cmd = "idle"
    /\ vres' \in {"ok", "err_offer"}

\* The connection of the peer the engine holds was closed by the remote side
\* or has failed.
HeldPeerClosed ==
    /\ voice.peer # 0
    /\ vpeer[voice.peer] = "failed"

\* C12: after the closure of the peer's connection the engine remains
\* available: a voice_handle_offer that follows establishes a new peer
\* connection, the one it answers from.
C12_OfferAfterClosureMakesPeer ==
    [][(HeldPeerClosed /\ OfferHandled)
         => /\ voice'.peer \notin {0, voice.peer}
            /\ vpeer'[voice'.peer] = "open"]_vars

\* Encode tasks that are running and write to peer p's local track.
EncodersOn(p) == {k \in Captures : venc[k] = "running" /\ vtrack[k] = p}

\* voice_set_input_device returns Ok from a call made while capture was
\* running in a session.
InputDeviceSwitched ==
    /\ vpc.cmd = "voice_set_input_device"
    /\ vpc'.cmd = "idle"
    /\ vres' = "ok"
    /\ voice.stream
    /\ voice.peer # 0

C13_Step ==
    InputDeviceSwitched =>
        /\ nCaptures' = nCaptures + 1
        /\ venc'[voice.encode_handle] = "aborted"
        /\ voice'.encode_handle = nCaptures'
        /\ venc'[nCaptures'] = "running"
        /\ vtrack'[nCaptures'] = voice.peer
        /\ \A k \in Captures :
              (venc'[k] = "running" /\ vtrack'[k] = voice.peer) => k = nCaptures'
        /\ voice'.stream
        /\ voice'.peer = voice.peer
        /\ voice'.input_device = vpc.arg

\* C13: a successful voice_set_input_device issued while capture runs in a
\* session stops capture and starts it again exactly once, on the local
\* track of the same peer: one capture is started, the old encode task is
\* aborted, the new one is the only encode task writing to that track, and
\* capture is running both before and after the command's single step under
\* the engine lock, so no other command sees it stopped.
C13_InputSwitchRestartsOnce == [][C13_Step]_vars

C13_Witness ==
    /\ vpc.cmd = "idle"
    /\ vres = "ok"
    /\ voice.peer # 0
    /\ voice.input_device = "B"
    /\ voice.encode_handle = 2
    /\ venc[1] = "aborted"
    /\ vtrack[1] = voice.peer
    /\ EncodersOn(voice.peer) = {2}

\* voice_set_input_device or voice_set_output_device, called in a session,
\* returns an error.
DeviceSwitchFails ==
    /\ voice.peer # 0
    /\ vpc.cmd \in {"voice_set_input_device", "voice_set_output_device"}
    /\ vpc'.cmd = "idle"
    /\ vres' # "ok"

\* C14: a voice_set_input_device or voice_set_output_device that fails to
\* open the device leaves no partial state: capture and playback run or not
\* as before, the selected device names are as before, and so is the mix
\* producer.
C14_FailedSwitchChangesNothing ==
    [][DeviceSwitchFails =>
          /\ voice'.stream = voice.stream
          /\ voice'.play_stream = voice.play_stream
          /\ voice'.input_device = voice.input_device
          /\ voice'.output_device = voice.output_device
          /\ voice'.mix_producer = voice.mix_producer]_vars

\* C15: a sequence of voice_start, voice_handle_offer and voice_handle_ice
\* with no voice_stop in it creates the peer connection at most once: no
\* peer is created when one was created since the last voice_stop.
C15_PeerCreatedOncePerSession ==
    [][nVPeers' > nVPeers => ~madePeer]_vars

InitEnc == EncInit /\ ScreenInit /\ VoiceInit /\ WorkersIdle /\ AuxIdle

SpecEnc == InitEnc /\ [][NextEnc]_vars

(***************************************************************************)
(* Properties of the audio encode loops (checked under SpecEnc)            *)
(***************************************************************************)
\* The voice encode task takes a frame out of pcm_buf in this step.
VoiceFrameStep == driven = "voice" /\ nFrames' = nFrames + 1

\* C1 (as claimed): for every frame the voice encode task processes, the
\* sequence counter advances by 1 (mod 2^16) and the timestamp counter by
\* 960 (mod 2^32), whether or not the frame was muted.
C1_CountersAdvancePerFrame ==
    [][VoiceFrameStep =>
          /\ sequence' = WrappingAdd16(sequence)
          /\ timestamp' = WrappingAdd32(timestamp, OPUS_FRAME_SAMPLES)]_vars

\* C1 (amended): for every frame the voice encode task processes: a muted
\* frame advances the timestamp by 960 (mod 2^32) and leaves the sequence
\* alone; an unmuted frame that is encoded advances the sequence by 1
\* (mod 2^16) and the timestamp by 960; an unmuted frame whose encode fails
\* advances neither.
C1_Step ==
    VoiceFrameStep =>
        IF muted
        THEN /\ timestamp' = WrappingAdd32(timestamp, OPUS_FRAME_SAMPLES)
             /\ sequence' = sequence
        ELSE IF encPc' = "write"
        THEN /\ timestamp' = WrappingAdd32(timestamp, OPUS_FRAME_SAMPLES)
             /\ sequence' = WrappingAdd16(sequence)
             /\ pkt' = [seq |-> sequence, ts |-> timestamp]
        ELSE /\ timestamp' = timestamp
             /\ sequence' = sequence

C1_CountersPerFrameKind == [][C1_Step]_vars

\* C1 witness: the voice task sent packet 65535, then processed a muted
\* frame: the sequence wrapped to 0 once, the timestamp advanced twice.
C1_Witness ==
    /\ driven = "voice"
    /\ framesBefore = U16 - 1
    /\ nFrames = 2
    /\ lastFrame = "muted"
    /\ lastPkt.seq = U16 - 1
    /\ sequence = 0
    /\ timestamp = TimestampAfter(framesBefore + 2)

\* C2: a frame at which the voice task reads the mute flag as true passes no
\* packet to the track; and while the flag has been true since before start,
\* no packet was ever passed to the track and the timestamp is 960 times
\* the number of frames processed (mod 2^32).
C2_Step ==
    (VoiceFrameStep /\ muted) =>
        /\ encPc' # "write"
        /\ pkt' = NoPkt
        /\ UNCHANGED <<lastPkt, prevPkt, lastWrite>>

C2_AlwaysMuted ==
    (driven = "voice" /\ ~everUnmuted) =>
        /\ pkt = NoPkt /\ lastPkt = NoPkt /\ lastWrite = "none"
        /\ timestamp = TimestampAfter(framesBefore + nFrames)

C2_MutedFramesSendNothing == []C2_AlwaysMuted /\ [][C2_Step]_vars

\* C2 witness: muted since before start, two frames processed, nothing sent.
C2_Witness ==
    /\ driven = "voice"
    /\ ~everUnmuted
    /\ framesBefore = 0
    /\ nFrames >= 2
    /\ lastPkt = NoPkt
    /\ timestamp = TimestampAfter(2)

\* Packet q is the successor of packet p in one stream.
Follows(p, q) ==
    /\ q.seq = (p.seq + 1) % U16
    /\ q.seq # p.seq
    /\ q.ts # p.ts
    /\ \E g \in 1..MaxFrames : q.ts = AddFrames(p.ts, g)

\* C3: in either encode loop, of two consecutive packets passed to the track
\* the second has the first's sequence number + 1 (mod 2^16) and a timestamp
\* later by a positive multiple of 960 (mod 2^32); neither repeats.
C3_ConsecutivePackets ==
    /\ prevPkt # NoPkt => Follows(prevPkt, lastPkt)
    /\ (lastPkt # NoPkt /\ pkt # NoPkt) => Follows(lastPkt, pkt)

\* C3 witness: packets 65535 and 0 of a voice stream with one muted frame
\* between them: the sequence wrapped, the timestamps are 2 * 960 apart.
C3_Witness ==
    /\ prevPkt # NoPkt
    /\ prevPkt.seq = U16 - 1
    /\ lastPkt.seq = 0
    /\ lastPkt.ts = AddFrames(prevPkt.ts, 2)

\* C10 (as claimed): once write_rtp on the voice track has returned a
\* "closed" error, the encode task does nothing more: it does not drain,
\* take a frame, build a packet or write; it can only be gone.
C10_ClosedEndsTask ==
    [][(driven = "voice" /\ lastWrite = "closed") =>
          \/ encPc' = "exited"
          \/ UNCHANGED <<pcm_buf, timestamp, sequence, encPc, pkt, lastPkt,
                         prevPkt, nFrames>>]_vars

InitWorkers ==
    driven = "screen" /\ ScreenInit /\ VoiceInit /\ EncIdle /\ WorkersInit /\ AuxIdle

SpecWorkers == InitWorkers /\ [][NextWorkers]_vars /\ FairWorkers

(***************************************************************************)
(* Properties of the capture workers (checked under SpecWorkers)           *)
(***************************************************************************)
\* The Opus thread is gone, or was never spawned and never will be.
OpusGone == opus = "exited" \/ (opus = "none" /\ aPw = "exited")

AllWorkersExited ==
    /\ vPw = "exited"
    /\ h264 = "exited"
    /\ aPw = "exited"
    /\ OpusGone

\* C9 (as claimed): after stop has set the session's flag, each of the four
\* workers eventually exits its main loop.
C9_WorkersExitAfterStop == wStop ~> AllWorkersExited

\* C9 (amended): after stop has set the session's flag, the Opus loop
\* eventually exits; each PipeWire main loop exits once PipeWire hands it
\* one more buffer; the H.264 worker exits once it gets one more frame or
\* once the video PipeWire thread has exited.
C9_WorkersExitAtNextWakeup ==
    /\ wStop ~> OpusGone
    /\ (wStop /\ vBuf) ~> (vPw = "exited")
    /\ (wStop /\ aBuf) ~> (aPw = "exited")
    /\ (wStop /\ chan > 0) ~> (h264 = "exited")
    /\ (wStop /\ vPw = "exited") ~> (h264 = "exited")

\* C9 witness: the flag is set and all four workers, which all ran their
\* loops, have exited.
C9_Witness ==
    /\ wStop
    /\ vPw = "exited" /\ txOpen = FALSE
    /\ h264 = "exited"
    /\ aPw = "exited"
    /\ opus = "exited"

====
